---- MODULE Spec2Model ----
(***************************************************************************)
(* State-machine model of react-native-vpage-sdk:                          *)
(*   - SocketService (src/src/websocket/socketService.ts), the Session     *)
(*     Channel Manager, together with the STOMP transport it drives;       *)
(*   - VekycService (src/unnamed/part_006), the soft-policy Call Engine    *)
(*     Coordinator, together with the RTC engine it drives.                *)
(* Strings are sequences of tokens, "" is <<>>.  One JavaScript job        *)
(* (a synchronous call, a callback, the continuation of an await) is one   *)
(* action: nothing interleaves inside it.                                  *)
(***************************************************************************)
EXTENDS Integers, Sequences, FiniteSets, TLC

\* ------------------------------------------------------------------ bounds
MaxClients == 2      \* transports one manager creates over its lifetime
MaxTimers == 2       \* interval ids the runtime hands out at one time
MaxPending == 2      \* cleanup() calls suspended at their await at one time
MaxEngines == 2      \* engines one coordinator creates over its lifetime
MaxText == 2         \* code units of a plaintext handed to encryptionAES

\* --------------------------------------------------------------- constants
SOCKET_PATH == <<"/websocket-agent">>
timeSleep == 3000

Undef == <<"<undefined>">>           \* JavaScript undefined, in a string position
Null == <<"<null>">>                 \* JavaScript null, in a string position
NoClient == 0                        \* this.client === undefined

TimerIds == 1..MaxTimers

SessionKeys == {<<"k1">>, <<"k2">>}
Tokens == {<<"t1">>, <<"t2">>}
InitArgs == {<<(<<"k1">>), (<<"t1">>)>>, <<(<<"k2">>), (<<"t2">>)>>}
SockSessions == {"s1", "s2"}         \* session segment the transport negotiates
Targets == {"NULL", "SELF", "OTHER"} \* argument of startHealthCheck
DeviceInfos == {<<"{}">>, <<"{os}">>}  \* JSON.stringify(deviceInfo)
Qualities == {<<3, 4>>, <<6, 0>>}    \* (downlink, uplink) pairs reported
QualityLevels == 0..6                \* the network quality scale, unknown to disconnected
IsLowArgs == {Null, <<"true">>}      \* isLow: null | 'true'

Slots == {"onUnhandledMessage", "onUnhandledReceipt", "onUnhandledFrame",
          "beforeConnect", "onConnect", "onDisconnect", "onStompError",
          "onWebSocketClose", "onWebSocketError", "onChangeState"}

\* The handler sets a caller passes to registerEventHandler: set 1 gives all
\* ten callbacks (its onConnect subscribes the four well-known topics, as in
\* the README), set 2 gives onDisconnect alone.
HandlerSets == {1, 2}
Provided(h) == IF h = 1 THEN Slots ELSE {"onDisconnect"}
HandlerName(h) == IF h = 1 THEN <<"set1">> ELSE <<"set2">>

\* ---------------------------------------------------------- string helpers
StartsWithAt(u, p, i) ==
    /\ i + Len(p) - 1 <= Len(u)
    /\ SubSeq(u, i, i + Len(p) - 1) = p

includes(u, p) == \E i \in 1..Len(u) : StartsWithAt(u, p, i)

RECURSIVE SplitFrom(_, _, _, _)
SplitFrom(u, sep, i, cur) ==
    IF i > Len(u) THEN <<cur>>
    ELSE IF StartsWithAt(u, sep, i)
         THEN <<cur>> \o SplitFrom(u, sep, i + Len(sep), <<>>)
         ELSE SplitFrom(u, sep, i + 1, Append(cur, u[i]))

split(u, sep) == SplitFrom(u, sep, 1, <<>>)

Truthy(str) == str # Undef /\ str # <<>>

\* The URL the transport negotiates: base + SOCKET_PATH + /server/session/websocket
TransportUrl(sess) ==
    <<"wss://host">> \o SOCKET_PATH \o <<"/", "srv", "/", sess, "/", "websocket">>

\* Topic and destination names
SessionNotifyTopic(key) == <<"/user/">> \o key \o <<"/notify">>
SocketNotifyTopic(id) == <<"/user/">> \o id \o <<"/notify">>
SocketHealthTopic(id) == <<"/user/">> \o id \o <<"/health">>
AppLiveTopic == <<"/app/live">>

\* The id the transport gives the subscription to a destination: never a
\* destination itself.
SubId(dest) == <<"sub-">> \o dest

\* ------------------------------------------------------------------- state
VARIABLES
    client,         \* SocketService.client: 0, or the id of the transport held
    socket,         \* SocketService.socket: 0, or the id of the SockJS object
    sessionKey,     \* SocketService.sessionKey
    token,          \* SocketService.token
    socketId,       \* SocketService.socketId
    timerInterval,  \* SocketService.timerInterval: 0 is null, else an interval id
    ncl,            \* transports created so far (new Client, new SockJS)
    tr,             \* the transport held: activation state, connection, slots
    url,            \* socket._transport.url of the SockJS object held
    timers,         \* the intervals scheduled in the runtime: [id, target, period]
    pending,        \* cleanup() calls suspended at `await this.disconnect()`:
                    \* how many wait for their promise, how many may resume
    call,           \* the job that ran last: what it was and what it did
    engine,         \* VekycService.engine: 0, or the id of the engine held
    eventHandler,   \* VekycService.eventHandler: 0, or the handler stored
    neng,           \* engines created so far (createAgoraRtcEngine)
    eng,            \* the engines: operations forwarded, handlers registered
    vcall,          \* the coordinator call that ran last
    fn              \* the call of a stateless service (API, crypto) that ran last

sockVars == <<client, socket, sessionKey, token, socketId, timerInterval,
              ncl, tr, url, timers, pending, call>>
vekycVars == <<engine, eventHandler, neng, eng, vcall>>
vars == <<client, socket, sessionKey, token, socketId, timerInterval,
          ncl, tr, url, timers, pending, call,
          engine, eventHandler, neng, eng, vcall, fn>>

\* A callback slot of the transport: the library's own default, a no-op the
\* manager put there, a caller's callback, or the manager's onConnect wrapper
\* around the callback of handler set h (h = 0: around the default no-op).
LibDefault == [k |-> "lib", h |-> 0]
NoOp == [k |-> "noop", h |-> 0]
Callback(h) == [k |-> "cb", h |-> h]
Wrapper(h) == [k |-> "wrap", h |-> h]

\* new Client({...}): inactive, not connected, the library's default
\* callbacks, no subscription.  subs holds the destinations subscribed on the
\* current connection; the subscription to dest has the id SubId(dest).
NewTransport ==
    [state |-> "INACTIVE", connected |-> FALSE, react |-> FALSE,
     slots |-> [sl \in Slots |-> LibDefault], subs |-> {}]

\* a message handed to the transport's publish
NoMsg == [destination |-> <<>>, headers |-> [none |-> TRUE], body |-> [none |-> TRUE]]

NoCall == [op |-> "none", res |-> "returned", trace |-> <<>>,
           ret |-> Undef, topics |-> <<>>, msg |-> NoMsg, arg |-> <<>>]

\* The state a job starts from: the manager's fields, the transports, the
\* runtime's timers, and the record of what the job does.
Cur ==
    [client |-> client, socket |-> socket, sessionKey |-> sessionKey,
     token |-> token, socketId |-> socketId, timerInterval |-> timerInterval,
     ncl |-> ncl, tr |-> tr, url |-> url, timers |-> timers,
     trace |-> <<>>, exc |-> FALSE, ret |-> Undef, topics |-> <<>>,
     msg |-> NoMsg, await |-> "none"]

Note(s, e) == [s EXCEPT !.trace = Append(@, e)]
Throw(s, e) == [s EXCEPT !.trace = Append(@, e), !.exc = TRUE]
\* statement sequencing: an exception skips what follows
Then(s, F(_)) == IF s.exc THEN s ELSE F(s)

\* ------------------------------------------ the transport (STOMP Client)
\* publish, subscribe and unsubscribe need the underlying connection: on a
\* transport that is not connected the call fails, and thr says whether the
\* failure is thrown at the caller (validateToken and sendNetworkStatus catch
\* exactly that).
T_publish(s, m, thr) ==
    IF ~s.tr.connected /\ thr
    THEN Throw(s, "T.publish!")
    ELSE [Note(s, "T.publish") EXCEPT !.msg = m]

T_subscribe(s, dest, thr) ==
    IF ~s.tr.connected /\ thr
    THEN Throw(s, "T.subscribe!")
    ELSE [Note(s, "T.subscribe") EXCEPT
            !.topics = Append(@, dest),
            !.ret = SubId(dest),
            !.tr.subs = IF s.tr.connected THEN @ \cup {dest} ELSE @]

T_unsubscribe(s, id, thr) ==
    IF ~s.tr.connected /\ thr
    THEN Throw(s, "T.unsubscribe!")
    ELSE [Note(s, "T.unsubscribe") EXCEPT
            !.topics = Append(@, id),
            !.tr.subs = {d \in @ : SubId(d) # id}]

\* activate(): starts connecting; during a deactivation it either throws or
\* waits for the deactivation to finish and activates then.
T_activate(s, thr) ==
    IF s.tr.state = "DEACTIVATING"
    THEN IF thr THEN Throw(s, "T.activate!")
         ELSE [Note(s, "T.activate") EXCEPT !.tr.react = TRUE]
    ELSE [Note(s, "T.activate") EXCEPT !.tr.state = "ACTIVE"]

\* deactivate(): the promise is pending until the connection has closed, and
\* resolved at once when there is no connection to close.
T_deactivate(s) ==
    LET t == s.tr IN
    IF t.state = "ACTIVE" /\ t.connected
    THEN [Note(s, "T.deactivate") EXCEPT !.tr.state = "DEACTIVATING",
                                          !.await = "pending"]
    ELSE IF t.state = "DEACTIVATING"
    THEN [Note(s, "T.deactivate") EXCEPT !.await = "pending"]
    ELSE [Note(s, "T.deactivate") EXCEPT !.tr.state = "INACTIVE",
                                          !.await = "resolved"]

\* --------------------------------------------------------- SocketService
\* initialize without its guard on this.client
initialize_unguarded(s, key, tok) ==
    LET n == s.ncl + 1 IN
    [s EXCEPT !.socket = n, !.sessionKey = key, !.token = tok,
              !.client = n, !.ncl = n,
              !.tr = NewTransport, !.url = Undef]

initialize(s, key, tok) ==
    IF s.client # NoClient
    THEN Note(s, "console.error")
    ELSE LET n == s.ncl + 1 IN
         [s EXCEPT !.socket = n, !.sessionKey = key, !.token = tok,
                   !.client = n, !.ncl = n,
                   !.tr = NewTransport, !.url = Undef]

\* setSocketId that takes the segment before the session segment
setSocketId_secondSegment(s) ==
    LET u == IF s.socket = 0 THEN Undef ELSE s.url IN
    IF Truthy(u) /\ includes(u, SOCKET_PATH)
    THEN LET parts == split(u, SOCKET_PATH) IN
         IF Len(parts) > 1
         THEN LET segments == split(parts[2], <<"/">>) IN
              [Note(s, "setSocketId") EXCEPT
                 !.socketId = IF Len(segments) >= 2 /\ segments[2] # <<>>
                              THEN segments[2] ELSE <<>>]
         ELSE Note(s, "console.warn")
    ELSE Note(s, "console.warn")

\* url is this.socket?._transport?.url?.toString(); parts[1] and segments[2]
\* of the code are parts[2] and segments[3] here.
setSocketId(s) ==
    LET u == IF s.socket = 0 THEN Undef ELSE s.url IN
    IF Truthy(u) /\ includes(u, SOCKET_PATH)
    THEN LET parts == split(u, SOCKET_PATH) IN
         IF Len(parts) > 1
         THEN LET segments == split(parts[2], <<"/">>) IN
              [Note(s, "setSocketId") EXCEPT
                 !.socketId = IF Len(segments) >= 3 /\ segments[3] # <<>>
                              THEN segments[3] ELSE <<>>]
         ELSE Note(s, "console.warn")
    ELSE Note(s, "console.warn")

subscribe(s, topic, thr) ==
    IF s.client = NoClient
    THEN Note(s, "console.error")
    ELSE T_subscribe(s, topic, thr)

subscribeSessionNotifyTopic(s, thr) ==
    IF s.client = NoClient
    THEN Note(s, "console.error")
    ELSE subscribe(s, SessionNotifyTopic(s.sessionKey), thr)

subscribeSocketNotifyTopic(s, thr) ==
    IF s.client = NoClient
    THEN Note(s, "console.error")
    ELSE subscribe(s, SocketNotifyTopic(s.socketId), thr)

subscribeSocketHealthTopic(s, thr) ==
    IF s.client = NoClient
    THEN Note(s, "console.error")
    ELSE subscribe(s, SocketHealthTopic(s.socketId), thr)

subscribeAppLiveTopic(s, thr) ==
    IF s.client = NoClient
    THEN Note(s, "console.error")
    ELSE subscribe(s, AppLiveTopic, thr)

\* send without its guard on this.client
send_unguarded(s, destination, headers, body, thr) ==
    T_publish(s, [destination |-> destination, headers |-> headers,
                  body |-> body], thr)

send(s, destination, headers, body, thr) ==
    IF s.client = NoClient
    THEN Note(s, "console.error")
    ELSE T_publish(s, [destination |-> destination, headers |-> headers,
                       body |-> body], thr)

\* clearHealthCheck that cancels the interval and keeps its id
clearHealthCheck_keepsId(s) ==
    IF s.timerInterval # 0
    THEN [Note(s, "clearInterval") EXCEPT
            !.timers = {t \in @ : t.id # s.timerInterval}]
    ELSE s

clearHealthCheck(s) ==
    IF s.timerInterval # 0
    THEN [Note(s, "clearInterval") EXCEPT
            !.timers = {t \in @ : t.id # s.timerInterval},
            !.timerInterval = 0]
    ELSE s

FreeTimerIds(s) == {i \in TimerIds : \A t \in s.timers : t.id # i}
NewTimerId(s) == CHOOSE i \in FreeTimerIds(s) : \A j \in FreeTimerIds(s) : i <= j

\* startHealthCheck that schedules without cancelling the timer it holds
startHealthCheck_keepsOld(s, socketService) ==
    IF socketService = "NULL"
    THEN Note(s, "console.warn")
    ELSE LET id == NewTimerId(s) IN
         [Note(s, "setInterval") EXCEPT
            !.timers = @ \cup {[id |-> id, target |-> socketService,
                             period |-> timeSleep]},
            !.timerInterval = id]

startHealthCheck(s, socketService) ==
    LET s1 == clearHealthCheck(s) IN
    IF socketService = "NULL"
    THEN Note(s1, "console.warn")
    ELSE LET id == NewTimerId(s1) IN
         [Note(s1, "setInterval") EXCEPT
            !.timers = @ \cup {[id |-> id, target |-> socketService,
                             period |-> timeSleep]},
            !.timerInterval = id]

\* ping headers that leave the identity out
PingHeaders_noIdentity(tok, sid) == [token |-> tok, socketId |-> <<>>]

\* The headers of a health-check ping (the timestamp header is left out: it
\* is the wall clock's).
PingHeaders(tok, sid) == [token |-> tok, socketId |-> sid]

\* validateToken whose catch only logs
validateToken_keepsTicking(s, socketService, thr) ==
    LET r == IF socketService = "SELF"
             THEN send(s, <<"/app/healthCheck">>,
                       PingHeaders(s.token, s.socketId), [none |-> TRUE], thr)
             ELSE IF thr THEN Throw(s, "other.send!")
                  ELSE Note(s, "other.send")
    IN IF r.exc
       THEN [Note(r, "console.warn") EXCEPT !.exc = FALSE]
       ELSE r

\* validateToken(socketService): `this` is the manager whose timer ticks.
\* SELF is that same manager; OTHER is another manager, whose send either
\* returns or throws.
validateToken(s, socketService, thr) ==
    LET r == IF socketService = "SELF"
             THEN send(s, <<"/app/healthCheck">>,
                       PingHeaders(s.token, s.socketId), [none |-> TRUE], thr)
             ELSE IF thr THEN Throw(s, "other.send!")
                  ELSE Note(s, "other.send")
    IN IF r.exc
       THEN clearHealthCheck([Note(r, "console.warn") EXCEPT !.exc = FALSE])
       ELSE r

\* JavaScript values as JSON sees them
JStr(str) == [t |-> "string", v |-> str]
JNum(n) == [t |-> "number", v |-> n]
JOf(x) ==
    IF x = Undef THEN [t |-> "undefined", v |-> <<>>]
    ELSE IF x = Null THEN [t |-> "null", v |-> <<>>]
    ELSE JStr(x)

\* JSON.stringify of an object: the text, kept as its members in order.  A
\* property whose value is undefined is left out of the text.
JSONstringify(obj) == SelectSeq(obj, LAMBDA m : m.v.t # "undefined")

\* the object literal of sendNetworkStatus with isLow as a plain property
NetworkObject_plainIsLow(s, q, isLow) ==
    << [k |-> "user", v |-> JStr(<<"CUSTOMER">>)],
       [k |-> "sessionKey", v |-> JStr(s.sessionKey)],
       [k |-> "socketId", v |-> JStr(s.socketId)],
       [k |-> "downlinkNetworkQuality", v |-> JNum(q[1])],
       [k |-> "uplinkNetworkQuality", v |-> JNum(q[2])],
       [k |-> "isLow", v |-> JOf(isLow)] >>

\* The object literal of sendNetworkStatus, its properties in order;
\* ...(isLow !== null && { isLow }) spreads one property or nothing.
NetworkObject(s, q, isLow) ==
    << [k |-> "user", v |-> JStr(<<"CUSTOMER">>)],
       [k |-> "sessionKey", v |-> JStr(s.sessionKey)],
       [k |-> "socketId", v |-> JStr(s.socketId)],
       [k |-> "downlinkNetworkQuality", v |-> JNum(q[1])],
       [k |-> "uplinkNetworkQuality", v |-> JNum(q[2])] >>
    \o (IF isLow # Null THEN << [k |-> "isLow", v |-> JOf(isLow)] >> ELSE <<>>)

NetworkBody(s, q, isLow) == JSONstringify(NetworkObject(s, q, isLow))

sendNetworkStatus(s, q, isLow, thr) ==
    LET r == send(s, <<"/app/network">>,
                  [sessionKey |-> s.sessionKey, token |-> s.token,
                   socketId |-> s.socketId],
                  NetworkBody(s, q, isLow), thr)
    IN IF r.exc
       THEN [Note(r, "console.warn") EXCEPT !.exc = FALSE]
       ELSE r

\* registerEventHandler that assigns only the slots the caller provides
registerEventHandler_merges(s, h) ==
    IF s.client = NoClient
    THEN Note(s, "console.error")
    ELSE [s EXCEPT !.tr.slots =
            [sl \in Slots |->
               IF sl = "onConnect"
               THEN Wrapper(IF sl \in Provided(h) THEN h ELSE 0)
               ELSE IF sl \in Provided(h) THEN Callback(h) ELSE @[sl]]]

registerEventHandler(s, h) ==
    IF s.client = NoClient
    THEN Note(s, "console.error")
    ELSE [s EXCEPT !.tr.slots =
            [sl \in Slots |->
               IF sl = "onConnect"
               THEN Wrapper(IF sl \in Provided(h) THEN h ELSE 0)
               ELSE IF sl \in Provided(h) THEN Callback(h) ELSE NoOp]]

\* connect without its guard on this.client.connected
connect_ignoresConnected(s, deviceInfo, thr) ==
    IF s.client = NoClient
    THEN Note(s, "console.error")
    ELSE T_activate(
           [Note(s, "connectHeaders:=") EXCEPT
              !.msg = [destination |-> <<"CONNECT">>,
                       headers |-> [token |-> s.token, deviceInfo |-> deviceInfo],
                       body |-> [none |-> TRUE]]], thr)

connect(s, deviceInfo, thr) ==
    IF s.client = NoClient
    THEN Note(s, "console.error")
    ELSE IF s.tr.connected
    THEN Note(s, "console.error")
    ELSE T_activate(
           [Note(s, "connectHeaders:=") EXCEPT
              !.msg = [destination |-> <<"CONNECT">>,
                       headers |-> [token |-> s.token, deviceInfo |-> deviceInfo],
                       body |-> [none |-> TRUE]]], thr)

\* disconnect that cancels the health check, as cleanup does
disconnect_clearsHealthCheck(s) ==
    IF s.client = NoClient
    THEN Note(s, "console.error")
    ELSE T_deactivate(clearHealthCheck(s))

disconnect(s) ==
    IF s.client = NoClient
    THEN Note(s, "console.error")
    ELSE T_deactivate(s)

unregisterEventHandler(s) ==
    IF s.client = NoClient
    THEN Note(s, "console.error")
    ELSE [Note(s, "slots:=noop") EXCEPT
            !.tr.slots = [sl \in Slots |-> NoOp]]

unsubscribe(s, topic, thr) ==
    IF s.client = NoClient
    THEN Note(s, "console.error")
    ELSE T_unsubscribe(s, topic, thr)

unsubscribeTopics(s, thr) ==
    IF s.client = NoClient
    THEN Note(s, "console.error")
    ELSE LET s1 == unsubscribe(s, SessionNotifyTopic(s.sessionKey), thr)
             s2 == Then(s1, LAMBDA x : unsubscribe(x, SocketNotifyTopic(x.socketId), thr))
             s3 == Then(s2, LAMBDA x : unsubscribe(x, SocketHealthTopic(x.socketId), thr))
         IN Then(s3, LAMBDA x : unsubscribe(x, AppLiveTopic, thr))

\* cleanup(), up to its await: the guard, clearHealthCheck, and the call of
\* disconnect, which leaves the promise cleanup is suspended on.
cleanupBegin(s) ==
    IF s.client = NoClient
    THEN Note(s, "console.error")
    ELSE disconnect(clearHealthCheck(s))

\* this.client = undefined; this.socket = undefined.  Nothing refers to the
\* transport any more: the model stops following it.
release(s) ==
    [Note(s, "release") EXCEPT !.client = NoClient, !.socket = 0,
                               !.tr = NewTransport, !.url = Undef]

\* cleanup that releases the handle before the rest of its teardown
cleanupEnd_releasesFirst(s, thr) ==
    LET s1 == release(s)
        s2 == Then(s1, LAMBDA x : unregisterEventHandler(x))
    IN Then(s2, LAMBDA x : unsubscribeTopics(x, thr))

\* cleanup(), from its await on.
cleanupEnd(s, thr) ==
    LET s1 == unregisterEventHandler(s)
        s2 == Then(s1, LAMBDA x : unsubscribeTopics(x, thr))
    IN Then(s2, LAMBDA x : release(x))

\* The caller's onConnect of handler set h: set 1 subscribes the four
\* well-known topics (README, step 4).
callerOnConnect(s, h, thr) ==
    IF h = 1
    THEN LET s1 == subscribeSessionNotifyTopic(Note(s, "onConnect"), thr)
             s2 == Then(s1, LAMBDA x : subscribeSocketNotifyTopic(x, thr))
             s3 == Then(s2, LAMBDA x : subscribeSocketHealthTopic(x, thr))
         IN Then(s3, LAMBDA x : subscribeAppLiveTopic(x, thr))
    ELSE Note(s, "onConnect")

\* a wrapper that calls the caller's onConnect first
onConnectWrapper_callbackFirst(s, h, thr) == setSocketId(callerOnConnect(s, h, thr))

\* this.client.onConnect as registerEventHandler wires it
onConnectWrapper(s, h, thr) == callerOnConnect(setSocketId(s), h, thr)

\* ------------------------------------------------- actions: the manager
\* What a job leaves behind: the manager's fields, the transports, the timers
\* and the record of the job.
Commit(s, op, res, arg) ==
    /\ client' = s.client
    /\ socket' = s.socket
    /\ sessionKey' = s.sessionKey
    /\ token' = s.token
    /\ socketId' = s.socketId
    /\ timerInterval' = s.timerInterval
    /\ ncl' = s.ncl
    /\ tr' = s.tr
    /\ url' = s.url
    /\ timers' = s.timers
    /\ call' = [op |-> op, res |-> res, trace |-> s.trace,
                ret |-> s.ret, topics |-> s.topics, msg |-> s.msg, arg |-> arg]
    /\ UNCHANGED vekycVars
    /\ UNCHANGED fn

Outcome(s) == IF s.exc THEN "threw" ELSE "returned"

\* A synchronous public method: one job, no continuation.
Sync(s, op, arg) == Commit(s, op, Outcome(s), arg) /\ UNCHANGED pending

\* Continuations of resolved promises run before the next event of the
\* transport or of a timer is delivered.
NoReady == pending.ready = 0

\* Whether a transport call that needs the connection throws is the
\* transport's choice, and only a choice while it is not connected.
Throws == IF client # NoClient /\ ~tr.connected THEN BOOLEAN ELSE {FALSE}

Initialize ==
    \E a \in InitArgs :
       /\ client # NoClient \/ ncl < MaxClients
       /\ Sync(initialize(Cur, a[1], a[2]), "initialize", a[1])

Subscribe ==
    \E thr \in Throws :
       Sync(subscribe(Cur, <<"/topic/x">>, thr), "subscribe", <<>>)

SubscribeSessionNotifyTopic ==
    \E thr \in Throws :
       Sync(subscribeSessionNotifyTopic(Cur, thr), "subscribeSessionNotifyTopic", <<>>)

SubscribeSocketNotifyTopic ==
    \E thr \in Throws :
       Sync(subscribeSocketNotifyTopic(Cur, thr), "subscribeSocketNotifyTopic", <<>>)

SubscribeSocketHealthTopic ==
    \E thr \in Throws :
       Sync(subscribeSocketHealthTopic(Cur, thr), "subscribeSocketHealthTopic", <<>>)

SubscribeAppLiveTopic ==
    \E thr \in Throws :
       Sync(subscribeAppLiveTopic(Cur, thr), "subscribeAppLiveTopic", <<>>)

Send ==
    \E thr \in Throws :
       Sync(send(Cur, <<"/app/x">>, [none |-> TRUE], [none |-> TRUE], thr),
            "send", <<>>)

SendNetworkStatus ==
    \E q \in Qualities, isLow \in IsLowArgs, thr \in Throws :
       Sync(sendNetworkStatus(Cur, q, isLow, thr), "sendNetworkStatus",
            <<q[1], q[2], isLow>>)

\* sendNetworkStatus over the whole quality scale
SendNetworkStatusInRange ==
    \E d \in QualityLevels, u \in QualityLevels, isLow \in IsLowArgs,
       thr \in Throws :
       Sync(sendNetworkStatus(Cur, <<d, u>>, isLow, thr), "sendNetworkStatus",
            <<d, u, isLow>>)

ClearHealthCheck == Sync(clearHealthCheck(Cur), "clearHealthCheck", <<>>)

StartHealthCheck ==
    \E tgt \in Targets :
       /\ tgt # "NULL" => FreeTimerIds(clearHealthCheck(Cur)) # {}
       /\ Sync(startHealthCheck(Cur, tgt), "startHealthCheck", <<tgt>>)

\* One tick of a scheduled interval: () => this.validateToken(socketService)
Tick ==
    \E t \in timers :
    \E thr \in (IF t.target = "OTHER" THEN BOOLEAN ELSE Throws) :
       /\ NoReady
       /\ Sync(validateToken(Cur, t.target, thr), "tick", <<t.target>>)

RegisterEventHandler ==
    \E h \in HandlerSets :
       Sync(registerEventHandler(Cur, h), "registerEventHandler", HandlerName(h))

Connect ==
    \E d \in DeviceInfos,
       thr \in (IF tr.state = "DEACTIVATING" THEN BOOLEAN ELSE {FALSE}) :
       Sync(connect(Cur, d, thr), "connect", d)

\* disconnect() awaits the deactivation and does nothing after it.
Disconnect == Sync(disconnect(Cur), "disconnect", <<>>)

UnregisterEventHandler ==
    Sync(unregisterEventHandler(Cur), "unregisterEventHandler", <<>>)

Unsubscribe ==
    \E topic \in {AppLiveTopic, SubId(AppLiveTopic)}, thr \in Throws :
       Sync(unsubscribe(Cur, topic, thr), "unsubscribe", topic)

UnsubscribeTopics ==
    \E thr \in Throws :
       Sync(unsubscribeTopics(Cur, thr), "unsubscribeTopics", <<>>)

\* cleanup() is called: it runs to `await this.disconnect()` and is suspended
\* there, also when the promise is already resolved.
CleanupStart ==
    LET s == cleanupBegin(Cur) IN
    IF client = NoClient
    THEN Sync(s, "cleanup", <<>>)
    ELSE /\ pending.wait + pending.ready < MaxPending
         /\ pending' = IF s.await = "resolved"
                       THEN [pending EXCEPT !.ready = @ + 1]
                       ELSE [pending EXCEPT !.wait = @ + 1]
         /\ Commit(s, "cleanup", "suspended", <<>>)

\* A suspended cleanup() resumes once its promise is resolved.
CleanupResume ==
    \E thr \in Throws :
       /\ pending.ready > 0
       /\ pending' = [pending EXCEPT !.ready = @ - 1]
       /\ LET s == cleanupEnd(Cur, thr) IN
          Commit(s, "cleanupResume", Outcome(s), <<>>)

\* ----------------------------------------------- actions: the transport
\* Only the transport the manager holds is followed: cleanup resets the slots
\* of a transport before it releases it, so a released transport calls nothing
\* of the manager.
\* The transport reports a connection (the first one, or a reconnect): the
\* SockJS object has its negotiated URL, and the onConnect slot is called.
ConnectEvent ==
    \E sess \in SockSessions, thr \in {FALSE} :
       /\ NoReady
       /\ client # NoClient
       /\ tr.state = "ACTIVE"
       /\ ~tr.connected
       /\ LET s0 == [Cur EXCEPT !.tr.connected = TRUE,
                                !.url = TransportUrl(sess)]
              slot == tr.slots["onConnect"]
              s == IF slot.k = "wrap" THEN onConnectWrapper(s0, slot.h, thr) ELSE s0
          IN /\ Commit(s, "connectEvent", Outcome(s), TransportUrl(sess))
             /\ UNCHANGED pending

\* URLs a SockJS object can carry at a connect event: none, without the
\* signaling path, with the path and fewer or more segments after it, with an
\* empty session segment, and with the path occurring twice.
NegotiatedUrls ==
    { Undef,
      <<>>,
      <<"wss://host", "/", "srv", "/", "s1", "/", "websocket">>,
      <<"wss://host">> \o SOCKET_PATH,
      <<"wss://host">> \o SOCKET_PATH \o <<"/", "srv">>,
      <<"wss://host">> \o SOCKET_PATH \o <<"/", "srv", "/">>,
      <<"wss://host">> \o SOCKET_PATH \o <<"/", "srv", "/", "/", "websocket">>,
      TransportUrl("s1"),
      SOCKET_PATH \o <<"/", "srv", "/", "s2", "/", "websocket">>,
      <<"wss://host">> \o SOCKET_PATH \o <<"/", "srv", "/", "s2">> \o SOCKET_PATH,
      <<"wss://host">> \o SOCKET_PATH \o <<"/", "a">> \o SOCKET_PATH \o <<"/", "b">>,
      <<"wss://host">> \o SOCKET_PATH \o SOCKET_PATH
         \o <<"/", "srv", "/", "s1", "/", "websocket">> }

\* A connect event on a SockJS object that carries any of these URLs
ConnectEventWithUrl ==
    \E u \in NegotiatedUrls :
       /\ NoReady
       /\ client # NoClient
       /\ tr.state = "ACTIVE"
       /\ ~tr.connected
       /\ LET s0 == [Cur EXCEPT !.tr.connected = TRUE, !.url = u]
              slot == tr.slots["onConnect"]
              s == IF slot.k = "wrap" THEN onConnectWrapper(s0, slot.h, FALSE) ELSE s0
          IN /\ Commit(s, "connectEventUrl", Outcome(s), u)
             /\ UNCHANGED pending

\* The connection drops while the transport is active: it will reconnect.
\* The subscriptions were the connection's and are gone with it.
ConnectionLost ==
    /\ NoReady
    /\ client # NoClient
    /\ tr.state = "ACTIVE"
    /\ tr.connected
    /\ Commit([Cur EXCEPT !.tr.connected = FALSE, !.tr.subs = {},
                          !.url = Undef],
              "connectionLost", "returned", <<>>)
    /\ UNCHANGED pending

\* The connection of a deactivating transport has closed: the promises of
\* its deactivate() calls resolve.
DeactivateDone ==
    /\ NoReady
    /\ client # NoClient
    /\ tr.state = "DEACTIVATING"
    /\ Commit([Cur EXCEPT !.tr.connected = FALSE,
                          !.tr.state = IF tr.react THEN "ACTIVE" ELSE "INACTIVE",
                          !.tr.react = FALSE,
                          !.tr.subs = {},
                          !.url = Undef],
              "deactivated", "returned", <<>>)
    /\ pending' = [wait |-> 0, ready |-> pending.ready + pending.wait]

SockInit ==
    /\ client = NoClient
    /\ socket = 0
    /\ sessionKey = <<>>
    /\ token = <<>>
    /\ socketId = <<>>
    /\ timerInterval = 0
    /\ ncl = 0
    /\ tr = NewTransport
    /\ url = Undef
    /\ timers = {}
    /\ pending = [wait |-> 0, ready |-> 0]
    /\ call = NoCall

\* ---------------------------------------------------------- VekycService
Engines == 1..MaxEngines
EventHandlers == {1, 2}              \* IRtcEngineEventHandler objects of the caller
StatusCodes == {0, -2}               \* what the engine answers: 0, or an error code
Platforms == {"android", "ios"}      \* Platform.OS
\* What PermissionsAndroid.requestMultiple answers for (camera, microphone),
\* when it answers
PermissionAnswers ==
    [camera : {"granted", "denied"}, microphone : {"granted", "denied"}]

\* createAgoraRtcEngine(): what the model keeps of an engine
NewEngine ==
    [initialized |-> FALSE, channel |-> "none", handlers |-> {},
     released |-> FALSE, afterRelease |-> FALSE]

\* A value a coordinator method returns: undefined, a status code, a boolean
RetUndefined == [k |-> "undefined", v |-> 0]
RetCode(n) == [k |-> "code", v |-> n]
RetBool(b) == [k |-> "bool", v |-> IF b THEN 1 ELSE 0]

NoVCall == [op |-> "none", res |-> "returned", trace |-> <<>>,
            ret |-> RetUndefined, opts |-> [none |-> TRUE],
            given |-> [none |-> TRUE]]

VCur ==
    [engine |-> engine, eventHandler |-> eventHandler, neng |-> neng, eng |-> eng,
     trace |-> <<>>, exc |-> FALSE, ret |-> RetUndefined, opts |-> [none |-> TRUE],
     given |-> [none |-> TRUE]]

\* this.engine.<op>(...): the operation reaches the engine the coordinator
\* holds.  An engine notes an operation that reaches it after release().
Forward(v, op) ==
    [v EXCEPT !.trace = Append(@, op),
              !.eng[v.engine].afterRelease = @ \/ v.eng[v.engine].released]

NotInitialized(v) == [v EXCEPT !.trace = Append(@, "console.error")]

\* getPermissions(): on android it awaits the runtime's answer, which is
\* granted or denied for each permission, or a rejection; nothing is
\* returned on either platform.  The call is recorded at its completion.
getPermissions(v, os, answer, rejects) ==
    IF os = "android"
    THEN IF rejects
         THEN [v EXCEPT !.trace = Append(@, "requestMultiple!"), !.exc = TRUE,
                        !.given = [os |-> os, answer |-> answer]]
         ELSE [v EXCEPT !.trace = Append(@, "requestMultiple"),
                        !.given = [os |-> os, answer |-> answer]]
    ELSE [v EXCEPT !.given = [os |-> os, answer |-> answer]]

\* initialize that creates an engine on every call
Vekyc_initialize_alwaysCreates(v, code) ==
    LET v1 == [v EXCEPT !.engine = v.neng + 1, !.neng = v.neng + 1,
                        !.trace = Append(@, "createAgoraRtcEngine")]
    IN [Forward(v1, "initialize") EXCEPT
          !.eng[v1.engine].initialized = TRUE, !.ret = RetCode(code),
          !.given = [answer |-> code]]

\* code is what the engine's initialize answers
Vekyc_initialize(v, code) ==
    LET v1 == IF v.engine = 0
              THEN [v EXCEPT !.engine = v.neng + 1, !.neng = v.neng + 1,
                             !.trace = Append(@, "createAgoraRtcEngine")]
              ELSE v
    IN [Forward(v1, "initialize") EXCEPT
          !.eng[v1.engine].initialized = TRUE, !.ret = RetCode(code),
          !.given = [answer |-> code]]

\* registerEventHandler that stores the handler before its guard
Vekyc_registerEventHandler_storesFirst(v, h) ==
    IF v.engine = 0
    THEN NotInitialized([v EXCEPT !.eventHandler = h])
    ELSE [Forward([v EXCEPT !.eventHandler = h], "registerEventHandler") EXCEPT
            !.eng[v.engine].handlers = @ \cup {h},
            !.ret = RetBool(h \notin v.eng[v.engine].handlers)]

Vekyc_registerEventHandler(v, h) ==
    IF v.engine = 0
    THEN NotInitialized(v)
    ELSE [Forward([v EXCEPT !.eventHandler = h], "registerEventHandler") EXCEPT
            !.eng[v.engine].handlers = @ \cup {h},
            !.ret = RetBool(h \notin v.eng[v.engine].handlers)]

\* ChannelMediaOptions are functions from option names to values.
DefaultOptions ==
    [channelProfile |-> "ChannelProfileCommunication",
     clientRoleType |-> "ClientRoleBroadcaster",
     publishMicrophoneTrack |-> "true", publishCameraTrack |-> "true",
     autoSubscribeAudio |-> "true", autoSubscribeVideo |-> "true"]

\* { ...options, ...defaults }: the spread in the other order
Spread_defaultsWin(defaults, options) ==
    [key \in DOMAIN defaults \cup DOMAIN options |->
        IF key \in DOMAIN defaults THEN defaults[key] ELSE options[key]]

\* { ...defaults, ...options }
Spread(defaults, options) ==
    [key \in DOMAIN defaults \cup DOMAIN options |->
        IF key \in DOMAIN options THEN options[key] ELSE defaults[key]]

CallerOptions ==
    { [key \in {} |-> "true"],
      [clientRoleType |-> "ClientRoleAudience"],
      [publishCameraTrack |-> "false", token |-> "x"] }

\* joinChannel that creates the engine it lacks, as initialize does
joinChannel_createsEngine(v, options) ==
    LET v1 == IF v.engine = 0
              THEN [v EXCEPT !.engine = v.neng + 1, !.neng = v.neng + 1,
                             !.trace = Append(@, "createAgoraRtcEngine")]
              ELSE v
    IN [Forward(v1, "joinChannel") EXCEPT
          !.eng[v1.engine].channel = "joined",
          !.opts = Spread(DefaultOptions, options), !.given = options,
          !.ret = RetCode(0)]

joinChannel(v, options) ==
    IF v.engine = 0
    THEN NotInitialized(v)
    ELSE [Forward(v, "joinChannel") EXCEPT
            !.eng[v.engine].channel = "joined",
            !.opts = Spread(DefaultOptions, options), !.given = options,
            !.ret = RetCode(0)]

\* a pass-through that creates the engine it lacks, as initialize does
PassThrough_createsEngine(v, op) ==
    LET v1 == IF v.engine = 0
              THEN [v EXCEPT !.engine = v.neng + 1, !.neng = v.neng + 1,
                             !.trace = Append(@, "createAgoraRtcEngine")]
              ELSE v
    IN [Forward(v1, op) EXCEPT !.ret = RetCode(0)]

\* enableVideo, startPreview, toggleMicrophone (enableLocalAudio),
\* switchCamera, stopPreview: guarded pass-throughs
PassThrough(v, op) ==
    IF v.engine = 0
    THEN NotInitialized(v)
    ELSE [Forward(v, op) EXCEPT !.ret = RetCode(0)]

enableVideo(v) == PassThrough(v, "enableVideo")
startPreview(v) == PassThrough(v, "startPreview")
toggleMicrophone(v) == PassThrough(v, "enableLocalAudio")
switchCamera(v) == PassThrough(v, "switchCamera")
stopPreview(v) == PassThrough(v, "stopPreview")

leaveChannel(v) ==
    IF v.engine = 0
    THEN NotInitialized(v)
    ELSE [Forward(v, "leaveChannel") EXCEPT
            !.eng[v.engine].channel = IF @ = "joined" THEN "left" ELSE @,
            !.ret = RetCode(0)]

\* The engine's unregisterEventHandler answers whether it succeeded: true
\* for a handler it had; for a handler it does not have the answer is the
\* engine's (ans).
Vekyc_unregisterEventHandler(v, ans) ==
    IF v.engine = 0
    THEN NotInitialized(v)
    ELSE IF v.eventHandler = 0
    THEN [v EXCEPT !.ret = RetBool(FALSE)]
    ELSE [Forward(v, "unregisterEventHandler") EXCEPT
            !.eng[v.engine].handlers = @ \ {v.eventHandler},
            !.ret = RetBool(v.eventHandler \in v.eng[v.engine].handlers \/ ans)]

engineRelease(v) ==
    [Forward(v, "release") EXCEPT !.eng[v.engine].released = TRUE,
                                  !.eng[v.engine].handlers = {}]

\* cleanup that keeps the engine handle after release()
Vekyc_cleanup_keepsHandle(v) ==
    IF v.engine = 0
    THEN NotInitialized(v)
    ELSE LET v1 == leaveChannel(v)
             v2 == stopPreview(v1)
             v3 == Vekyc_unregisterEventHandler(v2, FALSE)
         IN [engineRelease(v3) EXCEPT !.ret = RetUndefined]

\* cleanup that releases the engine before it leaves the channel
Vekyc_cleanup_releasesFirst(v) ==
    IF v.engine = 0
    THEN NotInitialized(v)
    ELSE LET v1 == engineRelease(v)
             v2 == leaveChannel(v1)
             v3 == stopPreview(v2)
             v4 == Vekyc_unregisterEventHandler(v3, FALSE)
         IN [v4 EXCEPT !.engine = 0, !.ret = RetUndefined]

\* cleanup discards what unregisterEventHandler returns
Vekyc_cleanup(v) ==
    IF v.engine = 0
    THEN NotInitialized(v)
    ELSE LET v1 == leaveChannel(v)
             v2 == stopPreview(v1)
             v3 == Vekyc_unregisterEventHandler(v2, FALSE)
             v4 == engineRelease(v3)
         IN [v4 EXCEPT !.engine = 0, !.ret = RetUndefined]

\* --------------------------------------------- actions: the coordinator
VCommit(v, op) ==
    /\ engine' = v.engine
    /\ eventHandler' = v.eventHandler
    /\ neng' = v.neng
    /\ eng' = v.eng
    /\ vcall' = [op |-> op, res |-> IF v.exc THEN "threw" ELSE "returned",
                 trace |-> v.trace, ret |-> v.ret, opts |-> v.opts,
                 given |-> v.given]
    /\ UNCHANGED sockVars
    /\ UNCHANGED fn

VGetPermissions ==
    \E os \in Platforms, answer \in PermissionAnswers, rejects \in BOOLEAN :
       VCommit(getPermissions(VCur, os, answer, rejects), "getPermissions")

VInitialize ==
    \E code \in StatusCodes :
       /\ engine # 0 \/ neng < MaxEngines
       /\ VCommit(Vekyc_initialize(VCur, code), "initialize")

VRegisterEventHandler ==
    \E h \in EventHandlers :
       VCommit(Vekyc_registerEventHandler(VCur, h), "registerEventHandler")

VJoinChannel ==
    \E options \in CallerOptions : VCommit(joinChannel(VCur, options), "joinChannel")

VEnableVideo == VCommit(enableVideo(VCur), "enableVideo")
VStartPreview == VCommit(startPreview(VCur), "startPreview")
VToggleMicrophone == VCommit(toggleMicrophone(VCur), "toggleMicrophone")
VSwitchCamera == VCommit(switchCamera(VCur), "switchCamera")
VStopPreview == VCommit(stopPreview(VCur), "stopPreview")
VLeaveChannel == VCommit(leaveChannel(VCur), "leaveChannel")
VUnregisterEventHandler ==
    \E ans \in BOOLEAN :
       VCommit(Vekyc_unregisterEventHandler(VCur, ans), "unregisterEventHandler")
VCleanup == VCommit(Vekyc_cleanup(VCur), "cleanup")

\* An engine delivers onJoinChannelSuccess to the caller's handler, which
\* calls enableVideo and startPreview on the coordinator (README, step 5).
\* The engine may deliver it late: after the channel was left, after its own
\* release, after the coordinator created another engine.
VJoinChannelSuccess ==
    /\ eventHandler # 0
    /\ \E e \in Engines : eng[e].channel # "none"
    /\ VCommit(startPreview(enableVideo(VCur)), "onJoinChannelSuccess")

VekycInit ==
    /\ engine = 0
    /\ eventHandler = 0
    /\ neng = 0
    /\ eng = [e \in Engines |-> NewEngine]
    /\ vcall = NoVCall

\* ------------------------------ VekycService, the throwing variant
\* src/unnamed/part_007: the constructor creates the engine, and an operation
\* that finds no engine throws.  The state is that of a coordinator: engine,
\* eventHandler, the engines, and the record of the last call.
NotCreated(v) ==
    [v EXCEPT !.trace = Append(@, "Error: Engine is not created."), !.exc = TRUE]

\* initialize that creates the engine it lacks, as the soft variant does
Hard_initialize_createsEngine(v, code) == Vekyc_initialize(v, code)

Hard_initialize(v, code) ==
    IF v.engine = 0
    THEN NotCreated(v)
    ELSE [Forward(v, "initialize") EXCEPT
            !.eng[v.engine].initialized = TRUE, !.ret = RetCode(code),
            !.given = [answer |-> code]]

\* registerEventHandler returns nothing in this variant
Hard_registerEventHandler(v, h) ==
    IF v.engine = 0
    THEN NotCreated(v)
    ELSE [Forward([v EXCEPT !.eventHandler = h], "registerEventHandler") EXCEPT
            !.eng[v.engine].handlers = @ \cup {h}]

Hard_joinChannel(v, options) ==
    IF v.engine = 0
    THEN NotCreated(v)
    ELSE [Forward(v, "joinChannel") EXCEPT
            !.eng[v.engine].channel = "joined",
            !.opts = Spread(DefaultOptions, options), !.given = options,
            !.ret = RetCode(0)]

\* enableVideo, startPreview, stopPreview
Hard_PassThrough(v, op) ==
    IF v.engine = 0
    THEN NotCreated(v)
    ELSE [Forward(v, op) EXCEPT !.ret = RetCode(0)]

Hard_leaveChannel(v) ==
    IF v.engine = 0
    THEN NotCreated(v)
    ELSE [Forward(v, "leaveChannel") EXCEPT
            !.eng[v.engine].channel = IF @ = "joined" THEN "left" ELSE @,
            !.ret = RetCode(0)]

Hard_unregisterEventHandler(v, ans) ==
    IF v.engine = 0
    THEN NotCreated(v)
    ELSE IF v.eventHandler = 0
    THEN [v EXCEPT !.ret = RetBool(FALSE)]
    ELSE [Forward(v, "unregisterEventHandler") EXCEPT
            !.eng[v.engine].handlers = @ \ {v.eventHandler},
            !.ret = RetBool(v.eventHandler \in v.eng[v.engine].handlers \/ ans)]

Hard_cleanup(v) ==
    IF v.engine = 0
    THEN NotCreated(v)
    ELSE LET v1 == Hard_leaveChannel(v)
             v2 == Hard_PassThrough(v1, "stopPreview")
             v3 == Hard_unregisterEventHandler(v2, FALSE)
             v4 == engineRelease(v3)
         IN [v4 EXCEPT !.engine = 0, !.ret = RetUndefined]

HInitialize ==
    \E code \in StatusCodes : VCommit(Hard_initialize(VCur, code), "initialize")
HRegisterEventHandler ==
    \E h \in EventHandlers :
       VCommit(Hard_registerEventHandler(VCur, h), "registerEventHandler")
HJoinChannel ==
    \E options \in CallerOptions :
       VCommit(Hard_joinChannel(VCur, options), "joinChannel")
HEnableVideo == VCommit(Hard_PassThrough(VCur, "enableVideo"), "enableVideo")
HStartPreview == VCommit(Hard_PassThrough(VCur, "startPreview"), "startPreview")
HStopPreview == VCommit(Hard_PassThrough(VCur, "stopPreview"), "stopPreview")
HLeaveChannel == VCommit(Hard_leaveChannel(VCur), "leaveChannel")
HUnregisterEventHandler ==
    \E ans \in BOOLEAN :
       VCommit(Hard_unregisterEventHandler(VCur, ans), "unregisterEventHandler")
HCleanup == VCommit(Hard_cleanup(VCur), "cleanup")

\* new VekycService(): the constructor holds the one engine it creates
HardVekycInit ==
    /\ engine = 1
    /\ eventHandler = 0
    /\ neng = 1
    /\ eng = [e \in Engines |-> NewEngine]
    /\ vcall = NoVCall

\* -------------------------------------------------------------- APIService
\* The path templates; a placeholder :id is the two tokens ":" and "id".
environment ==
    [GET_CONFIG_INFO |-> <<"/vekyc/campaign/config-agent">>,
     CREATE_MEETING |-> <<"/vekyc/meeting/", ":", "id", "/init">>,
     SAVE_LOG |-> <<"/vekyc/contract-action-histories">>,
     SUBMIT |-> <<"/vekyc/submit">>,
     VERIFY_OTP |-> <<"/vekyc/submit/verify">>,
     RESEND_OTP |-> <<"/vekyc/otp/resend">>,
     CHECK_SELF_KYC |-> <<"/vekyc/campaign/config/cus-auth">>,
     HOOK |-> <<"/vekyc/hook">>,
     CLOSE_VIDEO |-> <<"/vekyc/close-video">>,
     RATING |-> <<"/vekyc/rating/", ":", "id">>,
     GET_CONTRACT_LIST |-> <<"/vekyc/app/contracts">>,
     GET_CONTRACT_URL |-> <<"/vekyc/info-ekyc/", ":", "id", "/url-contact">>,
     CONFIRM_CONTRACT |-> <<"/vekyc/meeting/", ":", "id", "/confirm-bypass-otp">>]

\* Appointment ids and session keys handed to the API methods
ApiIds == {<<"k1">>, <<"k2">>, <<"$&">>}

\* String.prototype.replace(pattern, replacement) with a string pattern: the
\* first occurrence is replaced, and in the replacement $$ stands for $, $&
\* for the matched text, $` and $' for the text before and after the match.
indexOf(u, p) ==
    IF includes(u, p)
    THEN CHOOSE i \in 1..Len(u) :
            StartsWithAt(u, p, i) /\ \A j \in 1..(i - 1) : ~StartsWithAt(u, p, j)
    ELSE 0

RECURSIVE Expand(_, _, _, _)
Expand(r, before, match, after) ==
    IF r = <<>> THEN <<>>
    ELSE (CASE Head(r) = "$$" -> <<"$">>
            [] Head(r) = "$&" -> match
            [] Head(r) = "$`" -> before
            [] Head(r) = "$'" -> after
            [] OTHER -> <<Head(r)>>)
         \o Expand(Tail(r), before, match, after)

replace(u, p, r) ==
    LET i == indexOf(u, p) IN
    IF i = 0 THEN u
    ELSE LET before == SubSeq(u, 1, i - 1)
             after == SubSeq(u, i + Len(p), Len(u))
         IN before \o Expand(r, before, p, after) \o after

\* A request handed to the HTTP client, and what a method leaves behind
NoReq == [method |-> "none", path |-> <<>>, payload |-> <<>>]
NoFn == [op |-> "none", args |-> <<>>, req |-> NoReq, ret |-> <<>>, aux |-> <<>>]

\* client.get / client.post: ok says whether the client's promise resolves;
\* a rejection is logged and the method yields undefined.  failed, settled
\* and log keep whether the request failed, how the method's own promise
\* settles, and what was logged.
get(endpoint, params, ok) ==
    [req |-> [method |-> "GET", path |-> endpoint, payload |-> params],
     ret |-> IF ok THEN <<"data">> ELSE Undef,
     failed |-> ~ok, settled |-> "resolved",
     log |-> IF ok THEN <<>> ELSE <<"console.error">>]

post(endpoint, data, ok) ==
    [req |-> [method |-> "POST", path |-> endpoint, payload |-> data],
     ret |-> IF ok THEN <<"data">> ELSE Undef,
     failed |-> ~ok, settled |-> "resolved",
     log |-> IF ok THEN <<>> ELSE <<"console.error">>]

\* try { ... } catch (error) { console.error(...) } around the body of a
\* public method: a rejection inside becomes a logged undefined.
Caught(r) ==
    IF r.settled = "rejected"
    THEN [r EXCEPT !.settled = "resolved", !.ret = Undef,
                   !.log = Append(@, "console.error")]
    ELSE r

\* What the public-IP lookup raced against the timeout gives
IpAnswers == {"ip", "error", "timeout"}

\* getIPAddress without its try/catch
getIPAddress_noCatch(answer) ==
    [req |-> NoReq,
     ret |-> IF answer = "ip" THEN <<"ip">> ELSE Undef,
     failed |-> answer # "ip",
     settled |-> IF answer = "ip" THEN "resolved" ELSE "rejected",
     log |-> <<>>]

getIPAddress(answer) ==
    Caught([req |-> NoReq,
            ret |-> IF answer = "ip" THEN <<"ip">> ELSE Undef,
            failed |-> answer # "ip",
            settled |-> IF answer = "ip" THEN "resolved" ELSE "rejected",
            log |-> <<>>])

\* The loop of getChildren and postChildren over Object.keys(ids); ids is
\* the sequence of (key, value) properties.
RECURSIVE Substitute(_, _)
Substitute(endpoint, ids) ==
    IF ids = <<>> THEN endpoint
    ELSE LET key == Head(ids)[1]
             value == Head(ids)[2]
             e == IF includes(endpoint, <<":">> \o key)
                  THEN replace(endpoint, <<":">> \o key, value)
                  ELSE endpoint
         IN Substitute(e, Tail(ids))

getChildren(endpoint, ids, params, ok) == get(Substitute(endpoint, ids), params, ok)
postChildren(endpoint, ids, data, ok) == post(Substitute(endpoint, ids), data, ok)

getConfigInfo(appointmentId, ok) ==
    Caught(get(environment.GET_CONFIG_INFO, <<(<<"appointment_id">>), appointmentId>>, ok))

createMeeting(appointmentId, ok) ==
    Caught(postChildren(environment.CREATE_MEETING, << <<(<<"id">>), appointmentId>> >>,
                        <<(<<"customerIp">>), (<<"agent_id">>)>>, ok))

saveLog(sessKey, ok) ==
    Caught(post(environment.SAVE_LOG, <<(<<"actionHistory">>), (<<"detail">>), sessKey>>, ok))

submit(appointmentId, ok) ==
    Caught(post(environment.SUBMIT, <<(<<"id">>), appointmentId, (<<"agent_id">>)>>, ok))

verifyOTP(appointmentId, ok) ==
    Caught(post(environment.VERIFY_OTP,
                <<(<<"uuid">>), appointmentId, (<<"appointmentId">>), appointmentId,
                  (<<"otp">>)>>, ok))

resendOTP(appointmentId, ok) ==
    Caught(post(environment.RESEND_OTP, <<(<<"uuid">>), appointmentId>>, ok))

checkSelfKYC(sessKey, ok) ==
    Caught(get(environment.CHECK_SELF_KYC, <<(<<"sessionKey">>), sessKey>>, ok))

hook(sessKey, ok) ==
    Caught(post(environment.HOOK, <<(<<"sessionId">>), (<<"sessionKey">>), sessKey,
                                    (<<"agentId">>)>>, ok))

closeVideo(sessKey, ok) ==
    Caught(post(environment.CLOSE_VIDEO, <<(<<"sessionKey">>), sessKey, (<<"type">>),
                                           (<<"USER">>)>>, ok))

rateCall(ok) ==
    Caught(post(environment.RATING,
                <<(<<"rating_video_call">>), (<<"customer_feedback">>),
                  (<<"rating_agent">>), (<<"customer_feedback_agent">>)>>, ok))

getContractList(sessKey, ok) ==
    Caught(get(environment.GET_CONTRACT_LIST, <<(<<"meetingId">>), sessKey>>, ok))

getContractURL(sessKey, ok) ==
    Caught(getChildren(environment.GET_CONTRACT_LIST, << <<(<<"id">>), sessKey>> >>,
                       Undef, ok))

confirmContract(sessKey, ok) ==
    Caught(postChildren(environment.CONFIRM_CONTRACT, << <<(<<"id">>), sessKey>> >>,
                        Undef, ok))

\* ------------------------------------------------------------ CryptoService
\* A JavaScript string is a sequence of UTF-16 code units: "a" is an ASCII
\* character, "eacute" a character of two UTF-8 bytes, "H" and "L" a high
\* and a low surrogate, which make one character of four UTF-8 bytes when
\* they stand together in this order.
Units == {"a", "eacute", "H", "L"}
Strs(n) == UNION {[1..k -> Units] : k \in 0..n}
Rep(n) == [i \in 1..n |-> "a"]

KeyCut == 32                         \* key.substring(0, 32)
IvCut == 16                          \* tokenKey.substring(0, 16)

Plaintexts == Strs(MaxText)
PadLengths == {0, IvCut - 1, KeyCut - 1, KeyCut}
KeyTails == {<<>>, <<"a">>, <<"eacute">>, <<"H">>, <<"H", "L">>, <<"a", "a">>}
Keys == {Rep(n) \o tail : n \in PadLengths, tail \in KeyTails}
WrongKey == Rep(IvCut - 1) \o <<"eacute">>

\* str.substring(0, n)
substring(str, n) == SubSeq(str, 1, IF n < Len(str) THEN n ELSE Len(str))

WellFormed(str) ==
    \A i \in DOMAIN str :
       /\ str[i] = "H" => (i < Len(str) /\ str[i + 1] = "L")
       /\ str[i] = "L" => (i > 1 /\ str[i - 1] = "H")

\* CryptoJS.enc.Utf8.parse: the bytes of the string; it throws (URIError of
\* encodeURIComponent) on a string with a lone surrogate.
RECURSIVE Utf8Bytes(_)
Utf8Bytes(str) ==
    IF str = <<>> THEN <<>>
    ELSE (CASE Head(str) = "a" -> <<"61">>
            [] Head(str) = "eacute" -> <<"c3", "a9">>
            [] Head(str) = "H" -> <<"f0", "9f">>
            [] OTHER -> <<"98", "80">>)
         \o Utf8Bytes(Tail(str))

Utf8parse(str) ==
    IF WellFormed(str)
    THEN [ok |-> TRUE, bytes |-> Utf8Bytes(str)]
    ELSE [ok |-> FALSE, bytes |-> <<>>]

\* wordArray.toString(CryptoJS.enc.Utf8): the string of the bytes; it throws
\* (Malformed UTF-8 data) on bytes that are no UTF-8 text.
RECURSIVE Utf8stringify(_)
Utf8stringify(bytes) ==
    IF bytes = <<>> THEN [ok |-> TRUE, str |-> <<>>]
    ELSE IF Head(bytes) = "61"
    THEN LET r == Utf8stringify(Tail(bytes))
         IN [ok |-> r.ok, str |-> <<"a">> \o r.str]
    ELSE IF Len(bytes) >= 2 /\ SubSeq(bytes, 1, 2) = <<"c3", "a9">>
    THEN LET r == Utf8stringify(SubSeq(bytes, 3, Len(bytes)))
         IN [ok |-> r.ok, str |-> <<"eacute">> \o r.str]
    ELSE IF Len(bytes) >= 4 /\ SubSeq(bytes, 1, 4) = <<"f0", "9f", "98", "80">>
    THEN LET r == Utf8stringify(SubSeq(bytes, 5, Len(bytes)))
         IN [ok |-> r.ok, str |-> <<"H", "L">> \o r.str]
    ELSE [ok |-> FALSE, str |-> <<>>]

\* The cipher (CryptoJS.AES, CBC, Pkcs7).  A ciphertext string is kept as
\* what it encrypts and under which key and IV; NoCipher is undefined in the
\* position of a ciphertext, OtherText(s) a string that no encryption of the
\* model produced.
NoCipher == [k |-> "undefined"]
OtherText(s) == [k |-> "text", s |-> s]
AESencrypt(message, keyBytes, ivBytes) ==
    [k |-> "cipher", pt |-> message, key |-> keyBytes, iv |-> ivBytes]

\* AES is defined for keys of 16, 24 and 32 bytes.  For a key of another
\* size the library computes something, and whether its decryption undoes
\* its encryption is the library's (sound).
AesKeySizes == {16, 24, 32}

\* What decryption gives when it does not undo an encryption: bytes that are
\* no text (undefined after the catch), no bytes, or some other text.
Junk == {Undef, <<>>, <<"?">>}

encryptionAES(text, key) ==
    LET tokenKey == IF Len(key) > KeyCut THEN substring(key, KeyCut) ELSE key
        _key == Utf8parse(tokenKey)
        iv == Utf8parse(substring(tokenKey, IvCut))
        message == Utf8parse(text)
    IN IF _key.ok /\ iv.ok /\ message.ok
       THEN AESencrypt(message.bytes, _key.bytes, iv.bytes)
       ELSE NoCipher

\* decryptionAES that does not truncate the key
decryptionAES_wholeKey(text, key, sound, junk) ==
    LET tokenKey == key
        _key == Utf8parse(tokenKey)
        iv == Utf8parse(substring(tokenKey, IvCut))
    IN IF ~(_key.ok /\ iv.ok) \/ text.k = "undefined"
       THEN Undef
       ELSE IF /\ text.k = "cipher"
               /\ text.key = _key.bytes
               /\ text.iv = iv.bytes
               /\ (Len(_key.bytes) \in AesKeySizes \/ sound)
       THEN LET decrypted == Utf8stringify(text.pt)
            IN IF decrypted.ok THEN decrypted.str ELSE Undef
       ELSE junk

\* text is a ciphertext string or undefined; every exception is caught and
\* gives undefined.
decryptionAES(text, key, sound, junk) ==
    LET tokenKey == IF Len(key) > KeyCut THEN substring(key, KeyCut) ELSE key
        _key == Utf8parse(tokenKey)
        iv == Utf8parse(substring(tokenKey, IvCut))
    IN IF ~(_key.ok /\ iv.ok) \/ text.k = "undefined"
       THEN Undef
       ELSE IF /\ text.k = "cipher"
               /\ text.key = _key.bytes
               /\ text.iv = iv.bytes
               /\ (Len(_key.bytes) \in AesKeySizes \/ sound)
       THEN LET decrypted == Utf8stringify(text.pt)
            IN IF decrypted.ok THEN decrypted.str ELSE Undef
       ELSE junk

\* The URLs handed to decryptWS6Url are sequences of tokens: "?", "&", "="
\* and "%25" (an escaped percent sign) are themselves, the tokens of an
\* appointment id are code units, and "c1", "c2", "c3" are the Base64 texts
\* of three ciphertexts.
Id16 == Rep(IvCut)
Id5 == Rep(5)
TokenC1 == <<"a", "eacute">>
CipherText(str) ==
    IF str = <<"c1">> THEN encryptionAES(TokenC1, Id16)
    ELSE IF str = <<"c2">> THEN encryptionAES(<<>>, Id16)
    ELSE IF str = <<"c3">> THEN encryptionAES(<<"a">>, WrongKey)
    ELSE OtherText(str)

IdParts == {Null, <<>>, Id16, Id5}
TokenParts == {Null, <<>>, <<"c1">>, <<"c2">>, <<"c3">>, <<"x">>, <<"%25">>}
Param(name, v) == IF v = Null THEN <<>> ELSE <<name, "=">> \o v
Join(a, b) == IF a = <<>> THEN b ELSE IF b = <<>> THEN a ELSE a \o <<"&">> \o b
\* shape 1: id first; shape 2: token first; shape 3: no query at all
WS6Url(idp, tokp, shape) ==
    LET a == Param("appointment_id", idp)
        b == Param("token_encrypt", tokp)
    IN CASE shape = 1 -> <<"https://host/path", "?">> \o Join(a, b)
         [] shape = 2 -> <<"https://host/path", "?">> \o Join(b, a)
         [] OTHER -> <<"https://host/path">>
Shapes == {1, 2, 3}

\* percent-decoding: URLSearchParams leaves a malformed escape as it is,
\* decodeURIComponent throws on it
RECURSIVE PercentDecode(_)
PercentDecode(str) ==
    IF str = <<>> THEN <<>>
    ELSE (IF Head(str) = "%25" THEN <<"%">> ELSE <<Head(str)>>)
         \o PercentDecode(Tail(str))

decodeURIComponent(str) ==
    IF includes(str, <<"%">>)
    THEN [ok |-> FALSE, str |-> <<>>]
    ELSE [ok |-> TRUE, str |-> PercentDecode(str)]

\* new URLSearchParams(query): the (name, value) pairs of the query
RECURSIVE Pairs(_)
Pairs(pieces) ==
    IF pieces = <<>> THEN <<>>
    ELSE LET piece == Head(pieces)
             i == indexOf(piece, <<"=">>)
             name == IF i = 0 THEN piece ELSE SubSeq(piece, 1, i - 1)
             value == IF i = 0 THEN <<>> ELSE SubSeq(piece, i + 1, Len(piece))
         IN (IF piece = <<>> THEN <<>>
             ELSE << <<PercentDecode(name), PercentDecode(value)>> >>)
            \o Pairs(Tail(pieces))

URLSearchParams(query) ==
    IF query = Undef THEN <<>> ELSE Pairs(split(query, <<"&">>))

\* urlParams.get(name): the first value of that name, or null
URLget(params, name) ==
    IF \E i \in DOMAIN params : params[i][1] = <<name>>
    THEN params[CHOOSE i \in DOMAIN params :
                   /\ params[i][1] = <<name>>
                   /\ \A j \in 1..(i - 1) : params[j][1] # <<name>>][2]
    ELSE Null

WS6Undefined == [k |-> "undefined", threw |-> FALSE]
WS6Object(appointmentId, tok) ==
    [k |-> "object", threw |-> FALSE, appointmentId |-> appointmentId, token |-> tok]

\* What the try block of decryptWS6Url comes to: a result, or an exception
WS6Try(u, sound, junk) ==
    LET parts == split(u, <<"?">>)
        query == IF Len(parts) >= 2 THEN parts[2] ELSE Undef
        urlParams == URLSearchParams(query)
        appointmentId == URLget(urlParams, "appointment_id")
        encryptedToken == URLget(urlParams, "token_encrypt")
    IN IF ~Truthy(appointmentId) \/ appointmentId = Null
          \/ ~Truthy(encryptedToken) \/ encryptedToken = Null
       THEN [k |-> "exception", threw |-> TRUE]
       ELSE LET decoded == decodeURIComponent(encryptedToken) IN
            IF ~decoded.ok
            THEN [k |-> "exception", threw |-> TRUE]
            ELSE LET decryptedToken ==
                       decryptionAES(CipherText(decoded.str), appointmentId,
                                     sound, junk)
                 IN IF ~Truthy(decryptedToken)
                    THEN [k |-> "exception", threw |-> TRUE]
                    ELSE WS6Object(appointmentId, decryptedToken)

\* decryptWS6Url without its catch
decryptWS6Url_noCatch(u, sound, junk) == WS6Try(u, sound, junk)

decryptWS6Url(u, sound, junk) ==
    LET r == WS6Try(u, sound, junk)
    IN IF r.k = "exception" THEN WS6Undefined ELSE r

\* ----------------------------------------- actions: the stateless services
\* The services keep nothing between calls: fn records the call being looked
\* at, a call starts when none is recorded, and the record is dropped when its
\* caller is done with the result.
Idle == fn.op = "none"

FnReturn ==
    /\ ~Idle
    /\ fn' = NoFn
    /\ UNCHANGED sockVars
    /\ UNCHANGED vekycVars

\* A call of a stateless service leaves the manager and the coordinator alone.
FnFrame ==
    /\ UNCHANGED sockVars
    /\ UNCHANGED vekycVars

\* the record of an API call: the method, its id argument, the request it
\* handed to the client and what it returned
ApiCall(op, id, r) ==
    [op |-> op, args |-> id, req |-> r.req, ret |-> r.ret,
     aux |-> [failed |-> r.failed, settled |-> r.settled, log |-> r.log]]

GetConfigInfo ==
    /\ Idle
    /\ \E id \in ApiIds, ok \in BOOLEAN :
          fn' = ApiCall("getConfigInfo", id, getConfigInfo(id, ok)) /\ FnFrame
CreateMeeting ==
    /\ Idle
    /\ \E id \in ApiIds, ok \in BOOLEAN :
          fn' = ApiCall("createMeeting", id, createMeeting(id, ok)) /\ FnFrame
SaveLog ==
    /\ Idle
    /\ \E id \in ApiIds, ok \in BOOLEAN :
          fn' = ApiCall("saveLog", id, saveLog(id, ok)) /\ FnFrame
Submit ==
    /\ Idle
    /\ \E id \in ApiIds, ok \in BOOLEAN :
          fn' = ApiCall("submit", id, submit(id, ok)) /\ FnFrame
VerifyOTP ==
    /\ Idle
    /\ \E id \in ApiIds, ok \in BOOLEAN :
          fn' = ApiCall("verifyOTP", id, verifyOTP(id, ok)) /\ FnFrame
ResendOTP ==
    /\ Idle
    /\ \E id \in ApiIds, ok \in BOOLEAN :
          fn' = ApiCall("resendOTP", id, resendOTP(id, ok)) /\ FnFrame
CheckSelfKYC ==
    /\ Idle
    /\ \E id \in ApiIds, ok \in BOOLEAN :
          fn' = ApiCall("checkSelfKYC", id, checkSelfKYC(id, ok)) /\ FnFrame
Hook ==
    /\ Idle
    /\ \E id \in ApiIds, ok \in BOOLEAN :
          fn' = ApiCall("hook", id, hook(id, ok)) /\ FnFrame
CloseVideo ==
    /\ Idle
    /\ \E id \in ApiIds, ok \in BOOLEAN :
          fn' = ApiCall("closeVideo", id, closeVideo(id, ok)) /\ FnFrame
RateCall ==
    /\ Idle
    /\ \E ok \in BOOLEAN :
          fn' = ApiCall("rateCall", <<>>, rateCall(ok)) /\ FnFrame
GetIPAddress ==
    /\ Idle
    /\ \E answer \in IpAnswers :
          fn' = ApiCall("getIPAddress", <<answer>>, getIPAddress(answer)) /\ FnFrame
GetContractList ==
    /\ Idle
    /\ \E id \in ApiIds, ok \in BOOLEAN :
          fn' = ApiCall("getContractList", id, getContractList(id, ok)) /\ FnFrame
GetContractURL ==
    /\ Idle
    /\ \E id \in ApiIds, ok \in BOOLEAN :
          fn' = ApiCall("getContractURL", id, getContractURL(id, ok)) /\ FnFrame
ConfirmContract ==
    /\ Idle
    /\ \E id \in ApiIds, ok \in BOOLEAN :
          fn' = ApiCall("confirmContract", id, confirmContract(id, ok)) /\ FnFrame

EncryptionAES ==
    /\ Idle
    /\ \E text \in Plaintexts, key \in Keys :
          /\ fn' = [op |-> "encryptionAES", args |-> [text |-> text, key |-> key],
                    req |-> NoReq, ret |-> encryptionAES(text, key), aux |-> <<>>]
          /\ FnFrame

\* decryptionAES applied to what the last encryptionAES returned
DecryptionAES ==
    /\ fn.op = "encryptionAES"
    /\ \E key \in {fn.args.key, WrongKey}, sound \in BOOLEAN, junk \in Junk :
          /\ fn' = [op |-> "decryptionAES",
                    args |-> [text |-> fn.ret, key |-> key,
                              plaintext |-> fn.args.text, enckey |-> fn.args.key],
                    req |-> NoReq,
                    ret |-> decryptionAES(fn.ret, key, sound, junk),
                    aux |-> <<>>]
          /\ FnFrame

DecryptWS6Url ==
    /\ Idle
    /\ \E idp \in IdParts, tokp \in TokenParts, shape \in Shapes,
          sound \in BOOLEAN, junk \in Junk :
          /\ fn' = [op |-> "decryptWS6Url",
                    args |-> [id |-> idp, tok |-> tokp, shape |-> shape],
                    req |-> NoReq,
                    ret |-> decryptWS6Url(WS6Url(idp, tokp, shape), sound, junk),
                    aux |-> [sound |-> sound, junk |-> junk]]
          /\ FnFrame

Init == SockInit /\ VekycInit /\ fn = NoFn

\* The manager's lifecycle, its health check, and the transport's events
Next ==
    \/ Initialize
    \/ ClearHealthCheck
    \/ StartHealthCheck
    \/ Tick
    \/ RegisterEventHandler
    \/ Connect
    \/ Disconnect
    \/ UnregisterEventHandler
    \/ CleanupStart
    \/ CleanupResume
    \/ ConnectEvent
    \/ ConnectionLost
    \/ DeactivateDone

Spec == Init /\ [][Next]_vars

\* The manager's lifecycle and the transport's events, without the health
\* check
LifeNext ==
    \/ Initialize
    \/ RegisterEventHandler
    \/ Connect
    \/ Disconnect
    \/ UnregisterEventHandler
    \/ CleanupStart
    \/ CleanupResume
    \/ ConnectEvent
    \/ ConnectionLost
    \/ DeactivateDone

\* The lifecycle with the manager's subscribe, send and unsubscribe
\* operations, which act on the subscriptions of the transport
MsgNext ==
    \/ LifeNext
    \/ Subscribe
    \/ SubscribeSessionNotifyTopic
    \/ SubscribeSocketNotifyTopic
    \/ SubscribeSocketHealthTopic
    \/ SubscribeAppLiveTopic
    \/ Send
    \/ SendNetworkStatus
    \/ Unsubscribe
    \/ UnsubscribeTopics

SpecMsg == Init /\ [][MsgNext]_vars

\* The connection of one manager with network-status reports over the whole
\* quality scale
ReportNext ==
    \/ Initialize
    \/ RegisterEventHandler
    \/ Connect
    \/ ConnectEvent
    \/ ConnectionLost
    \/ SendNetworkStatusInRange

SpecReport == Init /\ [][ReportNext]_vars

\* The lifecycle and the health check with network-status reports
NetNext ==
    \/ Next
    \/ SendNetworkStatus

SpecNet == Init /\ [][NetNext]_vars

\* Connections of one manager over the URLs a SockJS object can carry
UrlNext ==
    \/ Initialize
    \/ RegisterEventHandler
    \/ Connect
    \/ ConnectEventWithUrl
    \/ ConnectionLost

SpecUrl == Init /\ [][UrlNext]_vars

\* The API service: every method against the HTTP client
ApiNext ==
    \/ GetConfigInfo
    \/ GetIPAddress
    \/ CreateMeeting
    \/ SaveLog
    \/ Submit
    \/ VerifyOTP
    \/ ResendOTP
    \/ CheckSelfKYC
    \/ Hook
    \/ CloseVideo
    \/ RateCall
    \/ GetContractList
    \/ GetContractURL
    \/ ConfirmContract

\* The crypto service
CryptoNext ==
    \/ EncryptionAES
    \/ DecryptionAES
    \/ DecryptWS6Url

\* The stateless services
LibNext ==
    \/ ApiNext
    \/ CryptoNext
    \/ FnReturn

SpecLib == Init /\ [][LibNext]_vars

\* The soft-policy coordinator
VekycNext ==
    \/ VGetPermissions
    \/ VInitialize
    \/ VRegisterEventHandler
    \/ VJoinChannel
    \/ VEnableVideo
    \/ VStartPreview
    \/ VToggleMicrophone
    \/ VSwitchCamera
    \/ VStopPreview
    \/ VLeaveChannel
    \/ VUnregisterEventHandler
    \/ VCleanup
    \/ VJoinChannelSuccess

SpecVekyc == Init /\ [][VekycNext]_vars

\* The throwing variant of the coordinator
HardInit == SockInit /\ HardVekycInit /\ fn = NoFn

HardNext ==
    \/ HInitialize
    \/ HRegisterEventHandler
    \/ HJoinChannel
    \/ HEnableVideo
    \/ HStartPreview
    \/ HStopPreview
    \/ HLeaveChannel
    \/ HUnregisterEventHandler
    \/ HCleanup

SpecHard == HardInit /\ [][HardNext]_vars

\* ================================================================ claims
Has(seq, e) == \E i \in DOMAIN seq : seq[i] = e

managerState == <<client, socket, sessionKey, token, socketId, timerInterval,
                  ncl, tr, url, timers, pending>>
coordinatorState == <<engine, eventHandler, neng, eng>>

\* C1: when a connect event reaches the wrapper that registerEventHandler
\* wired, setSocketId runs before the caller's onConnect, the identity is the
\* session segment of the URL negotiated for this very connection, and the
\* socket-scoped topics the callback subscribes are built from that identity.
C1_IdentityBeforeOnConnect ==
    (call.op = "connectEvent" /\ Has(call.trace, "onConnect")) =>
       /\ call.trace[1] = "setSocketId"
       /\ call.trace[2] = "onConnect"
       /\ \A sess \in SockSessions :
             call.arg = TransportUrl(sess) =>
                /\ socketId = <<sess>>
                /\ call.topics # <<>> =>
                      call.topics = <<SessionNotifyTopic(sessionKey),
                                      SocketNotifyTopic(<<sess>>),
                                      SocketHealthTopic(<<sess>>),
                                      AppLiveTopic>>

C1_Witness ==
    /\ call.op = "connectEvent"
    /\ call.arg = TransportUrl("s2")
    /\ Has(call.trace, "setSocketId")
    /\ call.topics = <<SessionNotifyTopic(sessionKey),
                      SocketNotifyTopic(<<"s2">>),
                      SocketHealthTopic(<<"s2">>),
                      AppLiveTopic>>

\* C2: initialize on a manager that holds a transport handle returns without
\* throwing and leaves the handle, the socket, the session key and the auth
\* token as they were, whatever its arguments.
C2_SecondInitializeRejected ==
    [][(client # NoClient /\ call'.op = "initialize") =>
          /\ call'.res = "returned"
          /\ call'.trace = <<"console.error">>
          /\ UNCHANGED <<client, socket, sessionKey, token, ncl, tr, url>>]_vars

C2_Witness ==
    /\ call.op = "initialize"
    /\ call.trace = <<"console.error">>
    /\ client # NoClient
    /\ call.arg # sessionKey

\* C3: at most one interval is scheduled, it is the one the manager holds
\* and its period is 3000 ms, and startHealthCheck leaves exactly one (none
\* for a null argument).
C3_OneHealthCheckTimer ==
    /\ Cardinality(timers) <= 1
    /\ \A t \in timers : t.id = timerInterval /\ t.period = 3000
    /\ timerInterval # 0 => \E t \in timers : t.id = timerInterval
    /\ call.op = "startHealthCheck" =>
          IF call.arg = <<"NULL">> THEN timers = {} ELSE Cardinality(timers) = 1

C3_Witness ==
    /\ call.op = "startHealthCheck"
    /\ call.trace = <<"clearInterval", "setInterval">>
    /\ Cardinality(timers) = 1

\* C4: a tick whose publish throws returns normally and cancels the
\* manager's timer in that same tick; with no timer scheduled no tick runs
\* until startHealthCheck schedules one.
C4_FailedPingStopsTimer ==
    [][/\ (call'.op = "tick" /\ (Has(call'.trace, "T.publish!")
                                   \/ Has(call'.trace, "other.send!"))) =>
             /\ call'.res = "returned"
             /\ timerInterval' = 0
             /\ timers' = {}
       /\ timers = {} => call'.op # "tick"]_vars

C4_Witness ==
    /\ call.op = "tick"
    /\ Has(call.trace, "T.publish!")
    /\ call.res = "returned"
    /\ timers = {}

\* C5: with no transport handle, each guarded operation returns without
\* throwing, returns no subscription, calls nothing of a transport and leaves
\* the manager's state unchanged.
GuardedOps ==
    {"subscribe", "subscribeSessionNotifyTopic", "subscribeSocketNotifyTopic",
     "subscribeSocketHealthTopic", "subscribeAppLiveTopic", "send",
     "sendNetworkStatus", "registerEventHandler", "connect", "disconnect",
     "unregisterEventHandler", "unsubscribe", "unsubscribeTopics", "cleanup"}

C5_NoHandleNoEffect ==
    [][(client = NoClient /\ call'.op \in GuardedOps) =>
          /\ call'.res = "returned"
          /\ call'.ret = Undef
          /\ call'.trace = <<"console.error">>
          /\ call'.topics = <<>>
          /\ call'.msg = NoMsg
          /\ UNCHANGED managerState]_vars

C5_Witness ==
    /\ call.op = "sendNetworkStatus"
    /\ call.trace = <<"console.error">>
    /\ client = NoClient
    /\ ncl = 1

\* C6: with no engine handle, each engine-dependent operation of the
\* coordinator returns undefined without throwing, forwards nothing and
\* leaves the engine handle and the stored handler unchanged.
SoftOps ==
    {"registerEventHandler", "joinChannel", "enableVideo", "startPreview",
     "stopPreview", "toggleMicrophone", "switchCamera", "leaveChannel",
     "unregisterEventHandler", "cleanup"}

C6_NoEngineNoEffect ==
    [][(engine = 0 /\ vcall'.op \in SoftOps) =>
          /\ vcall'.res = "returned"
          /\ vcall'.ret = RetUndefined
          /\ vcall'.trace = <<"console.error">>
          /\ UNCHANGED coordinatorState]_vars

C6_Witness ==
    /\ vcall.op = "registerEventHandler"
    /\ vcall.trace = <<"console.error">>
    /\ engine = 0
    /\ eventHandler = 0

\* C7: a cleanup() called while an earlier cleanup() of the same manager is
\* suspended is a no-op: it does not deactivate the transport again and
\* changes nothing.
C7_SecondCleanupNoOp ==
    [][(pending.wait + pending.ready > 0 /\ call'.op = "cleanup") =>
          /\ ~Has(call'.trace, "T.deactivate")
          /\ UNCHANGED managerState]_vars

\* C8: a cleanup() right after a cleanup() forwards nothing to an engine,
\* throws nothing and changes nothing: the engine was released once.
C8_SecondCleanupForwardsNothing ==
    [][(vcall.op = "cleanup" /\ vcall'.op = "cleanup") =>
          /\ vcall'.res = "returned"
          /\ vcall'.trace = <<"console.error">>
          /\ UNCHANGED coordinatorState]_vars

C8_Witness ==
    /\ vcall.op = "cleanup"
    /\ vcall.trace = <<"console.error">>
    /\ engine = 0
    /\ \E e \in Engines : eng[e].released

\* C9: cleanup() cancels the health-check timer and calls deactivate before
\* it is suspended; it resumes only when the deactivation is over, then
\* resets the slots, unsubscribes the four topics and releases the handle, in
\* this order; when it returns the manager holds neither handle nor socket.
C9_CleanupOrder ==
    [][/\ (client # NoClient /\ call'.op = "cleanup") =>
             /\ call'.res = "suspended"
             /\ call'.trace = IF timerInterval # 0
                              THEN <<"clearInterval", "T.deactivate">>
                              ELSE <<"T.deactivate">>
             /\ timerInterval' = 0
             /\ client' = client
       /\ (client # NoClient /\ call'.op = "cleanupResume") =>
             /\ tr.state # "DEACTIVATING"
             /\ ~tr.connected
             /\ \E n \in 0..4 :
                   call'.trace = <<"slots:=noop">>
                                 \o [i \in 1..n |-> "T.unsubscribe"]
                                 \o (IF n = 4 THEN <<"release">>
                                     ELSE <<"T.unsubscribe!">>)
             /\ call'.res = "returned" =>
                   /\ call'.topics = <<SessionNotifyTopic(sessionKey),
                                       SocketNotifyTopic(socketId),
                                       SocketHealthTopic(socketId),
                                       AppLiveTopic>>
                   /\ Has(call'.trace, "release")
       /\ (call'.op = "cleanupResume" /\ call'.res = "returned") =>
             (client' = NoClient /\ socket' = 0)]_vars

C9_Witness ==
    /\ call.op = "cleanupResume"
    /\ call.res = "returned"
    /\ call.trace = <<"slots:=noop", "T.unsubscribe", "T.unsubscribe",
                      "T.unsubscribe", "T.unsubscribe", "release">>
    /\ client = NoClient
    /\ socket = 0

C11_JoinOnlyAfterInitialize ==
    /\ engine # 0 => eng[engine].initialized
    /\ \A e \in Engines : eng[e].channel # "none" => eng[e].initialized
    /\ (vcall.op = "joinChannel" /\ Has(vcall.trace, "joinChannel")) =>
          (engine # 0 /\ eng[engine].initialized)

C11_Witness ==
    /\ vcall.op = "joinChannel"
    /\ vcall.trace = <<"joinChannel">>
    /\ neng = 2
    /\ eng[engine].channel = "joined"

\* C12: enableVideo, startPreview, toggleMicrophone, switchCamera and
\* leaveChannel are forwarded only to an engine on which a joinChannel has
\* been forwarded, and a joinChannel right after a forwarded leaveChannel
\* is not forwarded.
MediaOps == {"enableVideo", "startPreview", "toggleMicrophone", "switchCamera",
             "leaveChannel"}

C12_MediaOnlyAfterJoin ==
    [][/\ (vcall'.op \in MediaOps /\ vcall'.trace # <<"console.error">>) =>
             eng[engine].channel # "none"
       /\ (vcall.op = "leaveChannel" /\ vcall.trace # <<"console.error">>
            /\ vcall'.op = "joinChannel") =>
             vcall'.trace = <<"console.error">>]_vars

\* C12, as amended: the media operations, leaveChannel and joinChannel are
\* forwarded only to the engine the coordinator holds, which initialize has
\* reached and cleanup has not released; the coordinator puts no order
\* between joinChannel, the media operations and leaveChannel.
C12_MediaOnlyOnHeldEngine ==
    [][(vcall'.op \in MediaOps \cup {"joinChannel"}
        /\ vcall'.trace # <<"console.error">>) =>
          /\ engine # 0
          /\ engine' = engine
          /\ eng[engine].initialized
          /\ ~eng[engine].released
          /\ Len(vcall'.trace) = 1]_vars

C12_Witness ==
    /\ vcall.op = "enableVideo"
    /\ vcall.trace = <<"enableVideo">>
    /\ engine # 0
    /\ eng[engine].channel = "none"

\* C13: once an engine of the coordinator has been released, the
\* coordinator never holds an engine handle again.
C13_ReleasedIsTerminal ==
    (\E e \in Engines : eng[e].released) => engine = 0

\* C13, as amended: a released engine is never held again and nothing is
\* forwarded to it; after cleanup the coordinator holds no engine until an
\* initialize creates a new one.
C13_ReleasedEngineNeverReused ==
    [][/\ \A e \in Engines :
             eng[e].released =>
                (engine' # e /\ eng'[e].released /\ ~eng'[e].afterRelease)
       /\ vcall'.op = "cleanup" => engine' = 0
       /\ (engine = 0 /\ engine' # 0) =>
             /\ vcall'.op = "initialize"
             /\ engine' = neng + 1
             /\ ~eng[engine'].released]_vars

C13_Witness ==
    /\ vcall.op = "initialize"
    /\ vcall.trace = <<"createAgoraRtcEngine", "initialize">>
    /\ engine = 2
    /\ eng[1].released

\* C15: after a forwarded registerEventHandler, the handler passed is the
\* only handler registered on the engine.
C15_OneHandlerRegistered ==
    (vcall.op = "registerEventHandler" /\ vcall.trace # <<"console.error">>) =>
       eng[engine].handlers = {eventHandler}

\* C16: after registerEventHandler on a manager that holds a handle, each
\* slot holds the callback of the handler set just given or a no-op where
\* the set omits it (the onConnect slot holds the manager's wrapper around
\* that callback or that no-op); no slot keeps a callback of another set;
\* unregisterEventHandler leaves a no-op in all ten slots.
SlotsOf(h) ==
    [sl \in Slots |->
       IF sl = "onConnect"
       THEN Wrapper(IF sl \in Provided(h) THEN h ELSE 0)
       ELSE IF sl \in Provided(h) THEN Callback(h) ELSE NoOp]

C16_SlotsOverwritten ==
    [][/\ (client # NoClient /\ call'.op = "registerEventHandler") =>
             \A h \in HandlerSets :
                call'.arg = HandlerName(h) =>
                   /\ tr'.slots = SlotsOf(h)
                   /\ \A sl \in Slots : tr'.slots[sl].h \in {0, h}
       /\ (client # NoClient /\ call'.op = "unregisterEventHandler") =>
             \A sl \in Slots : tr'.slots[sl] = NoOp]_vars

C16_Witness ==
    /\ call.op = "registerEventHandler"
    /\ call.arg = HandlerName(2)
    /\ socketId # <<>>
    /\ tr.slots["onDisconnect"] = Callback(2)
    /\ tr.slots["onStompError"] = NoOp
    /\ tr.slots["onConnect"] = Wrapper(0)

\* C17: every connect event of the transport leaves the socket identity
\* equal to the session segment of the URL negotiated for that connection.
C17_IdentityOnEveryConnect ==
    call.op = "connectEvent" =>
       \E sess \in SockSessions :
          call.arg = TransportUrl(sess) /\ socketId = <<sess>>

\* C19: connect activates the transport only from a manager that holds a
\* handle whose transport is not connected; with no handle or while
\* connected it returns without throwing, activates nothing, sets no
\* connect headers and changes nothing; connect returns no value.
C19_ConnectGuards ==
    [][call'.op = "connect" =>
          /\ call'.ret = Undef
          /\ Has(call'.trace, "T.activate") => (client # NoClient /\ ~tr.connected)
          /\ (client = NoClient \/ tr.connected) =>
                /\ call'.res = "returned"
                /\ call'.trace = <<"console.error">>
                /\ call'.msg = NoMsg
                /\ UNCHANGED managerState
          /\ (client # NoClient /\ ~tr.connected /\ call'.res = "returned") =>
                /\ call'.trace = <<"connectHeaders:=", "T.activate">>
                /\ call'.msg.headers.token = token
                /\ call'.msg.headers.deviceInfo = call'.arg]_vars

C19_Witness ==
    /\ call.op = "connect"
    /\ call.trace = <<"console.error">>
    /\ client # NoClient
    /\ tr.connected
    /\ tr.state = "ACTIVE"

C18_IdentityInitiallyEmpty ==
    [][/\ (client = NoClient /\ call'.op = "initialize") => socketId' = <<>>
       /\ socketId' # socketId => call'.op = "connectEvent"]_vars

\* C20: after unsubscribeTopics returns on a manager that holds a handle,
\* none of the well-known topics is subscribed on the transport.
WellKnownTopics ==
    {SessionNotifyTopic(k) : k \in SessionKeys}
    \cup {SocketNotifyTopic(<<id>>) : id \in SockSessions}
    \cup {SocketHealthTopic(<<id>>) : id \in SockSessions}
    \cup {SocketNotifyTopic(<<>>), SocketHealthTopic(<<>>), AppLiveTopic}

C20_UnsubscribeTopicsTearsDown ==
    (call.op = "unsubscribeTopics" /\ call.res = "returned"
     /\ client # NoClient) =>
       tr.subs \cap WellKnownTopics = {}

\* C21: the options joinChannel hands to the engine have the keys of the
\* defaults and of the caller's options; each key carries the caller's value
\* when the caller supplied it and the default otherwise, the defaults being
\* the communication profile, the broadcaster role and the four publish and
\* subscribe flags set to true.
C21_OptionsOverlayDefaults ==
    (vcall.op = "joinChannel" /\ Has(vcall.trace, "joinChannel")) =>
       /\ DOMAIN vcall.opts =
             {"channelProfile", "clientRoleType", "publishMicrophoneTrack",
              "publishCameraTrack", "autoSubscribeAudio", "autoSubscribeVideo"}
             \cup DOMAIN vcall.given
       /\ \A key \in DOMAIN vcall.given : vcall.opts[key] = vcall.given[key]
       /\ \A key \in DOMAIN vcall.opts \ DOMAIN vcall.given :
             vcall.opts[key] =
               CASE key = "channelProfile" -> "ChannelProfileCommunication"
                 [] key = "clientRoleType" -> "ClientRoleBroadcaster"
                 [] OTHER -> "true"

C21_Witness ==
    /\ vcall.op = "joinChannel"
    /\ Has(vcall.trace, "joinChannel")
    /\ DOMAIN vcall.given = {"publishCameraTrack", "token"}
    /\ vcall.opts["publishCameraTrack"] = "false"
    /\ vcall.opts["publishMicrophoneTrack"] = "true"

\* the value of member k of a stringified object, its presence
Member(body, k) == (CHOOSE i \in DOMAIN body : body[i].k = k)
HasMember(body, k) == \E i \in DOMAIN body : body[i].k = k
MemberValue(body, k) == body[Member(body, k)].v

\* C22: for every downlink and uplink quality in 0..6, the body published by
\* sendNetworkStatus to /app/network carries user, the session key, the
\* current socket identity and the two quality values unchanged, and has an
\* isLow member exactly when the isLow argument is not null, with the value
\* 'true'.
C22_NetworkBody ==
    (call.op = "sendNetworkStatus" /\ Has(call.trace, "T.publish")) =>
       LET body == call.msg.body IN
       /\ call.msg.destination = <<"/app/network">>
       /\ \A k \in {"user", "sessionKey", "socketId", "downlinkNetworkQuality",
                     "uplinkNetworkQuality"} :
             Cardinality({i \in DOMAIN body : body[i].k = k}) = 1
       /\ MemberValue(body, "user") = [t |-> "string", v |-> <<"CUSTOMER">>]
       /\ MemberValue(body, "sessionKey") = [t |-> "string", v |-> sessionKey]
       /\ MemberValue(body, "socketId") = [t |-> "string", v |-> socketId]
       /\ MemberValue(body, "downlinkNetworkQuality") =
             [t |-> "number", v |-> call.arg[1]]
       /\ MemberValue(body, "uplinkNetworkQuality") =
             [t |-> "number", v |-> call.arg[2]]
       /\ HasMember(body, "isLow") <=> call.arg[3] # Null
       /\ HasMember(body, "isLow") =>
             MemberValue(body, "isLow") = [t |-> "string", v |-> <<"true">>]

C22_Witness ==
    /\ call.op = "sendNetworkStatus"
    /\ Has(call.trace, "T.publish")
    /\ call.arg = <<6, 0, Null>>
    /\ socketId = <<"s2">>
    /\ ~HasMember(call.msg.body, "isLow")
    /\ MemberValue(call.msg.body, "downlinkNetworkQuality").v = 6

\* C23: every health-check ping and every network-status report that is
\* published carries the token given to the initialize that created the
\* manager's handle and the socket identity the manager has at the moment of
\* the send; every connect carries that same token in its connection
\* headers.
C23_TokenAndIdentityOnTheWire ==
    [][ /\ (call'.op = "initialize" /\ client' # client) =>
              \E a \in InitArgs : a[1] = call'.arg /\ a[2] = token'
        /\ (call'.op # "initialize" /\ client' # NoClient) => token' = token
        /\ (call'.op \in {"tick", "sendNetworkStatus"}
              /\ Has(call'.trace, "T.publish")) =>
              /\ call'.msg.headers.token = token
              /\ call'.msg.headers.socketId = socketId
        /\ (call'.op = "connect" /\ Has(call'.trace, "connectHeaders:=")) =>
              call'.msg.headers.token = token
      ]_vars

C23_Witness ==
    /\ call.op = "tick"
    /\ Has(call.trace, "T.publish")
    /\ ncl = 2
    /\ token = <<"t2">>
    /\ call.msg.headers.token = <<"t2">>
    /\ call.msg.headers.socketId = <<"s2">>

\* a pair of booleans (camera, microphone) as a returned value
RetPair(camera, microphone) ==
    [k |-> "pair", v |-> (IF camera THEN 2 ELSE 0) + (IF microphone THEN 1 ELSE 0)]

\* C24: getPermissions never fails its caller and returns a pair of booleans
\* (camera, microphone): both true on a platform without runtime grants, and
\* on the platform with runtime grants each boolean is true exactly when
\* that permission was granted.
C24_PermissionsPair ==
    vcall.op = "getPermissions" =>
       /\ vcall.res = "returned"
       /\ vcall.ret =
            IF vcall.given.os = "android"
            THEN RetPair(vcall.given.answer.camera = "granted",
                         vcall.given.answer.microphone = "granted")
            ELSE RetPair(TRUE, TRUE)

\* C25: unregisterEventHandler on a held engine detaches the handler that is
\* currently registered, and returns false whenever no handler is registered
\* on that engine: also the second time in a row, and after a cleanup
\* followed by a new initialize.
C25_UnregisterFalseWhenNoneRegistered ==
    [][ (vcall'.op = "unregisterEventHandler" /\ engine # 0) =>
           IF eng[engine].handlers = {}
           THEN vcall'.ret = RetBool(FALSE)
           ELSE eventHandler \notin eng'[engine].handlers
      ]_vars

\* C26: initialize creates an engine only when the coordinator holds none;
\* an initialize on a coordinator that holds an engine keeps that engine;
\* the call reaches the engine held after it and no other engine, and it
\* returns the status code the engine answered.
C26_InitializeCreatesLazily ==
    [][ vcall'.op = "initialize" =>
          /\ engine # 0 =>
                /\ engine' = engine
                /\ neng' = neng
                /\ ~Has(vcall'.trace, "createAgoraRtcEngine")
          /\ engine = 0 =>
                /\ engine' = neng' /\ neng' = neng + 1
                /\ vcall'.trace = <<"createAgoraRtcEngine", "initialize">>
          /\ engine' # 0
          /\ eng'[engine'].initialized
          /\ \A e \in Engines \ {engine'} : eng'[e] = eng[e]
          /\ vcall'.ret = [k |-> "code", v |-> vcall'.given.answer]
      ]_vars

C26_Witness ==
    /\ vcall.op = "initialize"
    /\ vcall.trace = <<"initialize">>
    /\ vcall.ret = [k |-> "code", v |-> -2]
    /\ engine = 2
    /\ neng = 2

\* C28: getContractURL(sessionKey) issues a GET to the contract-URL path
\* template with :id replaced by sessionKey, and not to the contract-list
\* path.
C28_ContractUrlPath ==
    (fn.op = "getContractURL" /\ fn.args \in {<<"k1">>, <<"k2">>}) =>
       /\ fn.req.method = "GET"
       /\ fn.req.path = <<"/vekyc/info-ekyc/">> \o fn.args \o <<"/url-contact">>
       /\ fn.req.path # <<"/vekyc/app/contracts">>

\* C29: no request an APIService method sends has a path that still contains
\* the placeholder :id.
C29_NoPlaceholderOnTheWire ==
    (fn.req.method # "none" /\ fn.args # <<"$&">>) =>
       ~includes(fn.req.path, <<":", "id">>)

\* the key and the IV both directions derive from a secret
DerivedKey(key) == SubSeq(key, 1, IF Len(key) < 32 THEN Len(key) ELSE 32)
DerivedIv(key) == SubSeq(key, 1, IF Len(key) < 16 THEN Len(key) ELSE 16)
Utf8Length(str) ==
    Cardinality({i \in DOMAIN str : str[i] = "a"})
    + 2 * Cardinality({i \in DOMAIN str : str[i] # "a"})

\* C27 as stated: decryptionAES(encryptionAES(plaintext, key), key) equals
\* plaintext for every plaintext and every key.
C27_RoundTripEveryInput ==
    (fn.op = "decryptionAES" /\ fn.args.key = fn.args.enckey) =>
       fn.ret = fn.args.plaintext

\* C27: decryptionAES(encryptionAES(plaintext, key), key) equals plaintext
\* for every plaintext without a lone surrogate and every key whose first 32
\* code units, and their first 16, are without a lone surrogate and whose
\* first 32 code units are 16, 24 or 32 bytes of UTF-8.
C27_RoundTrip ==
    ( /\ fn.op = "decryptionAES"
      /\ fn.args.key = fn.args.enckey
      /\ WellFormed(fn.args.plaintext)
      /\ WellFormed(DerivedKey(fn.args.key))
      /\ WellFormed(DerivedIv(fn.args.key))
      /\ Utf8Length(DerivedKey(fn.args.key)) \in {16, 24, 32} ) =>
       fn.ret = fn.args.plaintext

C27_Witness ==
    /\ fn.op = "decryptionAES"
    /\ fn.args.key = fn.args.enckey
    /\ fn.args.key = Rep(KeyCut) \o <<"H", "L">>
    /\ fn.args.plaintext = <<"H", "L">>
    /\ fn.ret = <<"H", "L">>

\* C30: decryptWS6Url never throws; it returns undefined when the URL lacks
\* appointment_id or token_encrypt or when decrypting the token with the
\* appointment id as key yields nothing, and otherwise the appointment id of
\* the URL together with the decrypted token.
C30_DecryptWS6Url ==
    fn.op = "decryptWS6Url" =>
       LET idp == IF fn.args.shape = 3 THEN Null ELSE fn.args.id
           tokp == IF fn.args.shape = 3 THEN Null ELSE fn.args.tok
           decrypted ==
              IF tokp = <<"%25">> THEN Undef
              ELSE decryptionAES(CipherText(tokp), idp, fn.aux.sound, fn.aux.junk)
       IN /\ ~fn.ret.threw
          /\ IF idp \in {Null, <<>>} \/ tokp \in {Null, <<>>}
             THEN fn.ret.k = "undefined"
             ELSE IF decrypted \in {Undef, <<>>}
             THEN fn.ret.k = "undefined"
             ELSE /\ fn.ret.k = "object"
                  /\ fn.ret.appointmentId = idp
                  /\ fn.ret.token = decrypted
          /\ (idp = Id16 /\ tokp = <<"c1">>) =>
                (fn.ret.k = "object" /\ fn.ret.token = <<"a", "eacute">>)
          /\ (idp = Id16 /\ tokp = <<"c2">>) => fn.ret.k = "undefined"

C30_Witness ==
    /\ fn.op = "decryptWS6Url"
    /\ fn.args.shape = 2
    /\ fn.args.tok = <<"c1">>
    /\ fn.ret.k = "object"
    /\ fn.ret.appointmentId = Rep(16)
    /\ fn.ret.token = <<"a", "eacute">>

\* the characters of a URL: the signaling path itself begins with a '/'
RECURSIVE Chars(_)
Chars(u) ==
    IF u = <<>> THEN <<>>
    ELSE (IF <<Head(u)>> = SOCKET_PATH
          THEN <<"/", "websocket-agent">> ELSE <<Head(u)>>) \o Chars(Tail(u))

AfterFirstMarker(u) ==
    SubSeq(u, indexOf(u, SOCKET_PATH) + Len(SOCKET_PATH), Len(u))
UpToNextMarker(x) ==
    IF includes(x, SOCKET_PATH) THEN SubSeq(x, 1, indexOf(x, SOCKET_PATH) - 1) ELSE x
ThirdSegment(x) ==
    LET segs == split(Chars(x), <<"/">>)
    IN IF Len(segs) >= 3 THEN segs[3] ELSE <<>>
SetSocketIdRan ==
    /\ call'.op = "connectEventUrl"
    /\ call'.trace # <<>>

\* C31 as stated: with the marker present the identity becomes the third
\* '/'-separated segment of all the text that follows the first occurrence
\* of the marker.
C31_SegmentAfterFirstMarker ==
    [][SetSocketIdRan =>
          IF call'.arg \in {Undef, <<>>} \/ ~includes(call'.arg, SOCKET_PATH)
          THEN socketId' = socketId
          ELSE socketId' = ThirdSegment(AfterFirstMarker(call'.arg))]_vars

\* C31: setSocketId leaves the identity unchanged when the URL is missing or
\* lacks the signaling path marker; with the marker present it sets the
\* identity to the third '/'-separated segment of the text between the first
\* occurrence of the marker and its next occurrence (the end of the URL when
\* there is none), and to the empty string when that segment is missing or
\* empty.
C31_SegmentBetweenMarkers ==
    [][SetSocketIdRan =>
          IF call'.arg \in {Undef, <<>>} \/ ~includes(call'.arg, SOCKET_PATH)
          THEN socketId' = socketId /\ call'.trace[1] = "console.warn"
          ELSE socketId' = ThirdSegment(UpToNextMarker(AfterFirstMarker(call'.arg)))]_vars

C31_Witness ==
    /\ call.op = "connectEventUrl"
    /\ call.trace # <<>>
    /\ call.arg = <<"wss://host">> \o SOCKET_PATH \o <<"/", "srv", "/", "s2">>
                     \o SOCKET_PATH
    /\ socketId = <<"s2">>

\* C32: in every reachable state an active health-check timer implies that
\* the manager holds a transport handle.
C32_TimerImpliesHandle ==
    (timerInterval # 0 \/ timers # {}) => client # NoClient

\* C33: when a cleanup() that found a handle completes, no health-check
\* timer of the manager is active, also when startHealthCheck ran while the
\* cleanup was suspended.
C33_NoTimerWhenCleanupCompletes ==
    [][(call'.op = "cleanupResume" /\ call'.res = "returned") =>
          (timerInterval' = 0 /\ timers' = {})]_vars

\* C34: when a cleanup() completes by releasing its transport, that
\* transport is not active and no activation of it is in progress, also
\* when connect() ran while the cleanup was suspended.  The steps after the
\* await leave the activation as it is, so the transport released is tr as
\* the continuation finds it.
C34_ReleasedTransportInactive ==
    [][(call'.op = "cleanupResume" /\ Has(call'.trace, "release")) =>
          (tr.state = "INACTIVE" /\ ~tr.react /\ ~tr.connected)]_vars

\* C35: a cleanup() that found a handle ends with the handle released, also
\* when the transport throws during one of its steps.
C35_CleanupAlwaysReleases ==
    [][call'.op = "cleanupResume" =>
          (client' = NoClient /\ socket' = 0)]_vars

\* C37: disconnect changes only the activation state of the transport: the
\* handle, the SockJS object, the session key, the token, the identity, the
\* callbacks, the connection, the subscriptions and the health-check timer
\* are as before, so the timer is still scheduled after it; and a connect on
\* a manager whose transport has finished deactivating is accepted.
C37_DisconnectFrame ==
    [][/\ call'.op = "disconnect" =>
             /\ UNCHANGED <<client, socket, sessionKey, token, socketId,
                            timerInterval, timers, ncl, url>>
             /\ tr'.slots = tr.slots
             /\ tr'.connected = tr.connected
             /\ tr'.subs = tr.subs
             /\ tr'.react = tr.react
             /\ client # NoClient =>
                   /\ call'.trace = <<"T.deactivate">>
                   /\ tr'.state = IF tr.connected THEN "DEACTIVATING" ELSE "INACTIVE"
             /\ client = NoClient => tr' = tr
       /\ (/\ call'.op = "connect"
           /\ call.op \in {"disconnect", "deactivated"}
           /\ client # NoClient
           /\ tr.state = "INACTIVE") =>
             /\ call'.trace = <<"connectHeaders:=", "T.activate">>
             /\ tr'.state = "ACTIVE"
             /\ timers' = timers]_vars

C37_Witness ==
    /\ call.op = "disconnect"
    /\ call.trace = <<"T.deactivate">>
    /\ tr.state = "DEACTIVATING"
    /\ timerInterval # 0
    /\ \E t \in timers : t.id = timerInterval /\ t.target = "SELF"
    /\ tr.slots["onConnect"].k = "wrap"
    /\ socketId # <<>>

\* C39: clearHealthCheck leaves no timer active and changes no other field;
\* with no active timer it changes nothing at all, so a second call in a row
\* leaves the state the first one left.
C39_ClearHealthCheckIdempotent ==
    [][call'.op = "clearHealthCheck" =>
          /\ call'.res = "returned"
          /\ timerInterval' = 0
          /\ timers' = {}
          /\ UNCHANGED <<client, socket, sessionKey, token, socketId, ncl, tr,
                         url, pending>>
          /\ timerInterval = 0 =>
                (UNCHANGED managerState /\ call'.trace = <<>>)
          /\ call.op = "clearHealthCheck" =>
                (UNCHANGED managerState /\ call'.trace = <<>>)]_vars

C39_Witness ==
    /\ call.op = "clearHealthCheck"
    /\ call.trace = <<"clearInterval">>
    /\ timerInterval = 0
    /\ timers = {}
    /\ client # NoClient

\* C36: no operation reaches an engine after release() was called on it: a
\* call made with no engine held, the two calls of a late
\* onJoinChannelSuccess included, is answered by the coordinator itself, and
\* a call made after a later initialize goes to the engine created then.
C36_NothingReachesReleasedEngine ==
    /\ \A e \in Engines : ~eng[e].afterRelease
    /\ engine # 0 => ~eng[engine].released
    /\ (vcall.op = "onJoinChannelSuccess" /\ engine = 0) =>
          vcall.trace = <<"console.error", "console.error">>
    /\ (vcall.op = "onJoinChannelSuccess" /\ engine # 0) =>
          vcall.trace = <<"enableVideo", "startPreview">>

C36_Witness ==
    /\ vcall.op = "onJoinChannelSuccess"
    /\ vcall.trace = <<"enableVideo", "startPreview">>
    /\ engine = 2
    /\ eng[1].released
    /\ eng[1].channel = "left"
    /\ ~eng[1].afterRelease

\* C38: in the throwing variant every operation called with no engine
\* throws 'Engine is not created.', forwards nothing and changes nothing;
\* the constructor's engine is the only one ever created, so once cleanup
\* has run every operation throws, a second cleanup included.
C38_HardPolicyThrows ==
    [][/\ engine = 0 =>
             /\ vcall'.res = "threw"
             /\ vcall'.trace = <<"Error: Engine is not created.">>
             /\ vcall'.ret = RetUndefined
             /\ UNCHANGED coordinatorState
       /\ engine # 0 => vcall'.res = "returned"
       /\ neng' = 1
       /\ (engine # 0 /\ engine' = 0) => vcall'.op = "cleanup"
       /\ eng[1].released => engine = 0]_vars

C38_Witness ==
    /\ vcall.op = "cleanup"
    /\ vcall.res = "threw"
    /\ vcall.trace = <<"Error: Engine is not created.">>
    /\ engine = 0
    /\ eng[1].released
    /\ eng[1].channel = "left"

\* C40: no public method of the APIService rejects: its promise resolves,
\* and when the request failed the failure was logged and the promise
\* resolves to undefined; a request that did not fail gives what it answered.
C40_FailuresResolveToUndefined ==
    (fn.req.method # "none" \/ fn.op = "getIPAddress") =>
       /\ fn.aux.settled = "resolved"
       /\ fn.aux.failed => (fn.ret = Undef /\ Has(fn.aux.log, "console.error"))
       /\ ~fn.aux.failed => (fn.ret # Undef /\ fn.aux.log = <<>>)

C40_Witness ==
    /\ fn.op = "hook"
    /\ fn.req.method = "POST"
    /\ fn.req.path = <<"/vekyc/hook">>
    /\ fn.aux.failed
    /\ fn.aux.settled = "resolved"
    /\ fn.ret = Undef

====
